---- MODULE Spec2Model ----
(***************************************************************************)
(* State-machine model of the audio enhancement server (src/server.js):    *)
(* the job map, the classification event log, the HTTP handlers and the    *)
(* asynchronous processJob pipeline.                                       *)
(*                                                                         *)
(* Conventions.                                                            *)
(*  - An optional JavaScript value (absent key, undefined, null) is the    *)
(*    empty sequence None; a present value v is the one-element sequence   *)
(*    Some(v).                                                             *)
(*  - Decibel and loudness figures are integers in tenths (-1.0 is -10).   *)
(*  - A filter operation is a pair <<text, args>>: the literal filter text *)
(*    of the source and the sequence of interpolated numbers.              *)
(*  - JavaScript runs one handler to completion: `cur` names the job whose *)
(*    synchronous section holds the thread (Idle when the event loop is    *)
(*    free).  Only the awaits of processJob release it.                    *)
(***************************************************************************)
EXTENDS Integers, Sequences, FiniteSets, TLC

(* ------------------------------ bounds --------------------------------- *)
MaxJobs == 2
MaxFeedback == 1

(* ------------------------- program constants --------------------------- *)
EventCap == 500
RecentCount == 50

None == <<>>
Some(v) == <<v>>
Idle == 0
(* Date.now(): no operation computes with or compares timestamps, so a    *)
(* reading is the token Now                                               *)
Now == "t"
NaN == -999999
NullNum == -999998

JobIds == 1..MaxJobs
UnknownId == MaxJobs + 1
EmptyHandle == 0
Handles == EmptyHandle..UnknownId

Fields == {"status", "step", "createdAt", "request", "analysis", "renderPlan",
           "error", "failedAt", "enhancedFileUrl", "finishedAt"}

EmptyJob == [f \in Fields |-> None]

(* jobs.get(jobId): the record, or None for undefined *)
jobsGet(js, jobId) == IF jobId \in DOMAIN js THEN Some(js[jobId]) ELSE None

setJobMutReplace(js, jobId, patch) ==
  (jobId :> [f \in Fields |-> IF f \in DOMAIN patch THEN patch[f] ELSE None]) @@ js

(* setJob(jobId, patch): shallow merge of patch over the previous record *)
setJob(js, jobId, patch) ==
  LET prev == IF jobId \in DOMAIN js THEN js[jobId] ELSE EmptyJob
  IN  (jobId :> [f \in Fields |-> IF f \in DOMAIN patch THEN patch[f] ELSE prev[f]]) @@ js

(* jobs.get(jobId)?.field ?? null *)
jobField(js, jobId, f) == IF jobId \in DOMAIN js THEN js[jobId][f] ELSE None

(* classificationEvents.push(event); if (length > 500) shift() *)
logClassificationMutPop(events, event) ==
  LET pushed == Append(events, event)
  IN  IF Len(pushed) > EventCap THEN SubSeq(pushed, 1, Len(pushed) - 1) ELSE pushed
logClassification(events, event) ==
  LET pushed == Append(events, event)
  IN  IF Len(pushed) > EventCap THEN Tail(pushed) ELSE pushed

(* try { fs.appendFileSync(path, line) } catch { }: does a sink failure      *)
(* escape logClassification?  The empty catch swallows it.                 *)
sinkFailureEscapesMut(up) == ~up
sinkFailureEscapes(up) == FALSE

(* the durable log after the append: one line per event when the sink is up *)
sinkAppend(log, up, event) == IF up THEN Append(log, event.id) ELSE log

(* ----------------------- mastering targets ----------------------------- *)
getMasterTarget(profile) ==
  IF profile = "apple_music" THEN [I |-> -160, TP |-> -10, LRA |-> 110]
  ELSE IF profile = "soundcloud" THEN [I |-> -130, TP |-> -10, LRA |-> 100]
  ELSE IF profile = "spotify" THEN [I |-> -140, TP |-> -10, LRA |-> 100]
  ELSE IF profile = "loud" THEN [I |-> -100, TP |-> -8, LRA |-> 80]
  ELSE [I |-> -140, TP |-> -10, LRA |-> 100]

getMixTarget == [I |-> -160, TP |-> -12, LRA |-> 120]

(* --------------------------- analyzer ---------------------------------- *)
IsFinite(x) == x # NullNum /\ x # NaN

(* Engine output is a sequence of tokens: a word <<"w", text>> or a number  *)
(* <<"n", value>>.                                                         *)
Word(text) == <<"w", text>>
Num(x) == <<"n", x>>
MinOf(S) == CHOOSE x \in S : \A y \in S : x <= y

(* indexOf(key), then the first match of /-?\d+(\.\d+)?/ in the rest *)
parseNumberFrom(text, key) ==
  LET found == {i \in 1..Len(text) : text[i][1] = "w" /\ text[i][2] = key}
  IN  IF found = {} THEN NullNum
      ELSE LET nums == {i \in (MinOf(found) + 1)..Len(text) : text[i][1] = "n"}
           IN  IF nums = {} THEN NullNum ELSE text[MinOf(nums)][2]

(* vol(af): the mean and max of one volumedetect run *)
vol(out) ==
  [mean |-> parseNumberFrom(out, "mean_volume:"), max |-> parseNumberFrom(out, "max_volume:")]

(* const profile = { lowMean: low.mean, ... } from the four runs *)
profileOf(outs) ==
  [lowMean |-> vol(outs.low).mean, midMean |-> vol(outs.mid).mean,
   highMean |-> vol(outs.high).mean, fullMean |-> vol(outs.full).mean,
   fullMax |-> vol(outs.full).max]

analyzeTagsMutInclusive(p) ==
  (IF IsFinite(p.lowMean) /\ IsFinite(p.midMean) /\ p.lowMean - p.midMean <= -80
     THEN <<"low_end_weak">> ELSE <<>>)
  \o (IF IsFinite(p.lowMean) /\ IsFinite(p.midMean) /\ p.lowMean - p.midMean > 60
     THEN <<"low_end_heavy">> ELSE <<>>)
  \o (IF IsFinite(p.highMean) /\ IsFinite(p.midMean) /\ p.highMean - p.midMean > -30
     THEN <<"harsh_highs">> ELSE <<>>)
  \o (IF IsFinite(p.highMean) /\ IsFinite(p.midMean) /\ p.highMean - p.midMean < -140
     THEN <<"dull_highs">> ELSE <<>>)
  \o (IF IsFinite(p.midMean) /\ IsFinite(p.fullMean) /\ p.midMean - p.fullMean > 25
     THEN <<"mid_forward">> ELSE <<>>)
  \o (IF IsFinite(p.fullMax) /\ p.fullMax > -10 THEN <<"too_loud">> ELSE <<>>)
  \o (IF IsFinite(p.fullMean) /\ p.fullMean < -220 THEN <<"too_quiet">> ELSE <<>>)

analyzeTagsMutHeavyFlipped(p) ==
  (IF IsFinite(p.lowMean) /\ IsFinite(p.midMean) /\ p.lowMean - p.midMean < -80
     THEN <<"low_end_weak">> ELSE <<>>)
  \o (IF IsFinite(p.lowMean) /\ IsFinite(p.midMean) /\ p.lowMean - p.midMean < 60
     THEN <<"low_end_heavy">> ELSE <<>>)
  \o (IF IsFinite(p.highMean) /\ IsFinite(p.midMean) /\ p.highMean - p.midMean > -30
     THEN <<"harsh_highs">> ELSE <<>>)
  \o (IF IsFinite(p.highMean) /\ IsFinite(p.midMean) /\ p.highMean - p.midMean < -140
     THEN <<"dull_highs">> ELSE <<>>)
  \o (IF IsFinite(p.midMean) /\ IsFinite(p.fullMean) /\ p.midMean - p.fullMean > 25
     THEN <<"mid_forward">> ELSE <<>>)
  \o (IF IsFinite(p.fullMax) /\ p.fullMax > -10 THEN <<"too_loud">> ELSE <<>>)
  \o (IF IsFinite(p.fullMean) /\ p.fullMean < -220 THEN <<"too_quiet">> ELSE <<>>)

(* the rules without Number.isFinite: in arithmetic and comparisons null is 0 *)
analyzeTagsMutNullAsZero(p) ==
  LET z(x) == IF x = NullNum THEN 0 ELSE x
  IN  (IF z(p.lowMean) - z(p.midMean) < -80 THEN <<"low_end_weak">> ELSE <<>>)
      \o (IF z(p.lowMean) - z(p.midMean) > 60 THEN <<"low_end_heavy">> ELSE <<>>)
      \o (IF z(p.highMean) - z(p.midMean) > -30 THEN <<"harsh_highs">> ELSE <<>>)
      \o (IF z(p.highMean) - z(p.midMean) < -140 THEN <<"dull_highs">> ELSE <<>>)
      \o (IF z(p.midMean) - z(p.fullMean) > 25 THEN <<"mid_forward">> ELSE <<>>)
      \o (IF z(p.fullMax) > -10 THEN <<"too_loud">> ELSE <<>>)
      \o (IF z(p.fullMean) < -220 THEN <<"too_quiet">> ELSE <<>>)

(* the tag rules of analyzeBands, in push order *)
analyzeTags(p) ==
  (IF IsFinite(p.lowMean) /\ IsFinite(p.midMean) /\ p.lowMean - p.midMean < -80
     THEN <<"low_end_weak">> ELSE <<>>)
  \o (IF IsFinite(p.lowMean) /\ IsFinite(p.midMean) /\ p.lowMean - p.midMean > 60
     THEN <<"low_end_heavy">> ELSE <<>>)
  \o (IF IsFinite(p.highMean) /\ IsFinite(p.midMean) /\ p.highMean - p.midMean > -30
     THEN <<"harsh_highs">> ELSE <<>>)
  \o (IF IsFinite(p.highMean) /\ IsFinite(p.midMean) /\ p.highMean - p.midMean < -140
     THEN <<"dull_highs">> ELSE <<>>)
  \o (IF IsFinite(p.midMean) /\ IsFinite(p.fullMean) /\ p.midMean - p.fullMean > 25
     THEN <<"mid_forward">> ELSE <<>>)
  \o (IF IsFinite(p.fullMax) /\ p.fullMax > -10 THEN <<"too_loud">> ELSE <<>>)
  \o (IF IsFinite(p.fullMean) /\ p.fullMean < -220 THEN <<"too_quiet">> ELSE <<>>)

analyzeBands(p) == [profile |-> p, tags |-> analyzeTags(p)]

includes(seq, x) == \E i \in 1..Len(seq) : seq[i] = x
Range(seq) == {seq[i] : i \in 1..Len(seq)}

F(text) == <<text, <<>>>>

buildAdaptiveToneMutPerOccurrence(tags) ==
  LET block(t) ==
        CASE t = "low_end_weak" -> <<F("bass=g=3.5:f=100:w=0.7")>>
          [] t = "low_end_heavy" ->
               <<F("bass=g=-3:f=110:w=0.8"), F("equalizer=f=250:t=q:w=1:g=-1.5")>>
          [] t = "harsh_highs" ->
               <<F("treble=g=-2.8:f=9000:w=0.6"), F("equalizer=f=3500:t=q:w=1:g=-1")>>
          [] t = "dull_highs" -> <<F("treble=g=2.0:f=9000:w=0.6")>>
          [] t = "mid_forward" -> <<F("equalizer=f=320:t=q:w=1:g=-2.0")>>
          [] OTHER -> <<>>
      upTo[i \in 0..Len(tags)] == IF i = 0 THEN <<>> ELSE upTo[i - 1] \o block(tags[i])
  IN  upTo[Len(tags)]

buildAdaptiveTone(tags) ==
  (IF includes(tags, "low_end_weak") THEN <<F("bass=g=3.5:f=100:w=0.7")>> ELSE <<>>)
  \o (IF includes(tags, "low_end_heavy")
        THEN <<F("bass=g=-3:f=110:w=0.8"), F("equalizer=f=250:t=q:w=1:g=-1.5")>> ELSE <<>>)
  \o (IF includes(tags, "harsh_highs")
        THEN <<F("treble=g=-2.8:f=9000:w=0.6"), F("equalizer=f=3500:t=q:w=1:g=-1")>> ELSE <<>>)
  \o (IF includes(tags, "dull_highs") THEN <<F("treble=g=2.0:f=9000:w=0.6")>> ELSE <<>>)
  \o (IF includes(tags, "mid_forward") THEN <<F("equalizer=f=320:t=q:w=1:g=-2.0")>> ELSE <<>>)

getFocusFiltersMutDefaultFallsThrough(focus) ==
  CASE focus = "presence" ->
         <<F("equalizer=f=3500:t=q:w=1:g=2.5"), F("equalizer=f=6000:t=q:w=1:g=1.0")>>
    [] focus = "air" -> <<F("treble=g=3.5:f=10000:w=0.7")>>
    [] focus = "wide" -> <<F("stereotools=mlev=1:slev=1.35"), F("extrastereo=m=2.0")>>
    [] focus = "punch" ->
         <<F("acompressor=threshold=-18dB:ratio=2.6:attack=8:release=90:makeup=1.5"),
           F("equalizer=f=120:t=q:w=1:g=1.0"), F("equalizer=f=3000:t=q:w=1:g=1.0")>>
    [] OTHER ->
         <<F("bass=g=6:f=90:w=0.8"),
           F("acompressor=threshold=-20dB:ratio=2.0:attack=25:release=160:makeup=1.2")>>

getFocusFilters(focus) ==
  CASE focus = "bass" ->
         <<F("bass=g=6:f=90:w=0.8"),
           F("acompressor=threshold=-20dB:ratio=2.0:attack=25:release=160:makeup=1.2")>>
    [] focus = "presence" ->
         <<F("equalizer=f=3500:t=q:w=1:g=2.5"), F("equalizer=f=6000:t=q:w=1:g=1.0")>>
    [] focus = "air" -> <<F("treble=g=3.5:f=10000:w=0.7")>>
    [] focus = "wide" -> <<F("stereotools=mlev=1:slev=1.35"), F("extrastereo=m=2.0")>>
    [] focus = "punch" ->
         <<F("acompressor=threshold=-18dB:ratio=2.6:attack=8:release=90:makeup=1.5"),
           F("equalizer=f=120:t=q:w=1:g=1.0"), F("equalizer=f=3000:t=q:w=1:g=1.0")>>
    [] OTHER -> <<>>

buildTempoPitchMutScalesAgain(speedMultiplier, pitchSemitones) ==
  LET base == <<F("aresample=48000:resampler=soxr"),
                F("aformat=sample_fmts=fltp:channel_layouts=stereo"),
                <<"atempo=", <<speedMultiplier>>>> >>
  IN  IF pitchSemitones = 0 \/ pitchSemitones = NaN THEN base
      ELSE base \o << <<"asetrate=48000*2^(s/12)", <<pitchSemitones>>>>,
                      F("aresample=48000:resampler=soxr"),
                      <<"atempo=1/2^(s/12)", <<-pitchSemitones>>>> >>

(* ratio = Math.pow(2, pitchSemitones / 12) is kept symbolic: the args of   *)
(* asetrate and of the counter-scaling atempo are the semitone count.      *)
buildTempoPitch(speedMultiplier, pitchSemitones) ==
  LET base == <<F("aresample=48000:resampler=soxr"),
                F("aformat=sample_fmts=fltp:channel_layouts=stereo"),
                <<"atempo=", <<speedMultiplier>>>> >>
  IN  IF pitchSemitones = 0 \/ pitchSemitones = NaN THEN base
      ELSE base \o << <<"asetrate=48000*2^(s/12)", <<pitchSemitones>>>>,
                      F("aresample=48000:resampler=soxr"),
                      <<"atempo=1/2^(s/12)", <<pitchSemitones>>>> >>

(* a JSON member of the engine's report: the token <<"f", name, value>> *)
JsonMember(name, value) == <<"f", name, value>>
MaxOf(S) == CHOOSE x \in S : \A y \in S : x >= y

(* the slice from the first "{" to the last "}", JSON.parse'd: null when a   *)
(* brace is missing or the slice is no JSON object                         *)
parseLoudnormJson(text) ==
  LET opens == {i \in 1..Len(text) : text[i][1] = "w" /\ text[i][2] = "{"}
      closes == {i \in 1..Len(text) : text[i][1] = "w" /\ text[i][2] = "}"}
  IN  IF opens = {} \/ closes = {} THEN None
      ELSE LET inner == (MinOf(opens) + 1)..(MaxOf(closes) - 1)
           IN  IF MaxOf(closes) < MinOf(opens) \/ \E i \in inner : text[i][1] # "f" THEN None
               ELSE Some([n \in {text[i][2] : i \in inner} |->
                            text[MaxOf({i \in inner : text[i][2] = n})][3]])

(* the text `${obj.f}` shows for a key obj lacks *)
Undefined == -999997
(* obj.f *)
fieldOf(obj, f) == IF f \in DOMAIN obj THEN obj[f] ELSE Undefined

loudnormSecondPassFilterMutNoOffset(target, measured) ==
  <<"loudnorm=I:TP:LRA:measured_I:measured_TP:measured_LRA:measured_thresh:offset:linear=true",
    <<target.I, target.TP, target.LRA, fieldOf(measured, "input_i"),
      fieldOf(measured, "input_tp"), fieldOf(measured, "input_lra"),
      fieldOf(measured, "input_thresh"), 0>> >>

loudnormSecondPassFilter(target, measured) ==
  <<"loudnorm=I:TP:LRA:measured_I:measured_TP:measured_LRA:measured_thresh:offset:linear=true",
    <<target.I, target.TP, target.LRA, fieldOf(measured, "input_i"),
      fieldOf(measured, "input_tp"), fieldOf(measured, "input_lra"),
      fieldOf(measured, "input_thresh"), fieldOf(measured, "target_offset")>> >>

FinalLimiter == F("alimiter=limit=0.985:attack=2:release=60")

(* the mode's own filters at the head of the first render's chain *)
coreChain(enhancementType) ==
  CASE enhancementType = "mix" ->
         <<F("highpass=f=30"), F("lowpass=f=18000"),
           F("acompressor=threshold=-20dB:ratio=2.0:attack=25:release=160:makeup=1.0"),
           F("stereotools=mlev=1:slev=1.12")>>
    [] enhancementType = "4d" ->
         <<F("highpass=f=30"), F("stereotools=mlev=1:slev=1.28"),
           F("apulsator=hz=0.12:amount=0.30"), F("aecho=0.8:0.85:40:0.10")>>
    [] enhancementType = "master" ->
         <<F("highpass=f=25"),
           F("acompressor=threshold=-22dB:ratio=1.8:attack=15:release=120:makeup=1.0")>>
    [] OTHER -> <<>>

preChainMutFocusFirst(opts, tags) ==
  coreChain(opts.enhancementType) \o getFocusFilters(opts.focus) \o buildAdaptiveTone(tags)
    \o buildTempoPitch(opts.speedMultiplier, opts.pitchSemitones)

(* mixEnhance / d4 / preMaster: [...core, ...adaptiveTone, ...focusFilters, *)
(* ...tempoPitch]                                                          *)
preChain(opts, tags) ==
  coreChain(opts.enhancementType) \o buildAdaptiveTone(tags) \o getFocusFilters(opts.focus)
    \o buildTempoPitch(opts.speedMultiplier, opts.pitchSemitones)

targetOfMutAlwaysMaster(opts) == getMasterTarget(opts.masterProfile)

(* const target = ... in each mode's branch *)
targetOf(opts) ==
  IF opts.enhancementType = "master" THEN getMasterTarget(opts.masterProfile) ELSE getMixTarget

(* the filter of loudnormMeasure(pre, target) *)
loudnormMeasureFilter(target) ==
  <<"loudnorm=I:TP:LRA:print_format=json", <<target.I, target.TP, target.LRA>>>>

(* const final = [ln2, "alimiter=..."].join(",") *)
finalChain(target, measured) == <<loudnormSecondPassFilter(target, measured), FinalLimiter>>

(* ------------------------------ inputs --------------------------------- *)
(* request bodies of POST /enhance: absent keys are None *)
Body(url, type, speed, pitch, focus, profile) ==
  [inputFileUrl |-> url, enhancementType |-> type, speedMultiplier |-> speed,
   pitchSemitones |-> pitch, focus |-> focus, masterProfile |-> profile]

ValidBodies ==
  { Body(Some("u1"), Some("mix"), None, None, None, None),
    Body(Some("u2"), Some("master"), Some(10), Some(2), Some("bass"), Some("apple_music")) }

(* one body per validation check; Number("fast") is NaN *)
InvalidBodies ==
  { Body(None, Some("mix"), None, None, None, None),
    Body(Some("u1"), Some("remix"), None, None, None, None),
    Body(Some("u1"), Some("mix"), Some(30), None, None, None),
    Body(Some("u1"), Some("mix"), Some(NaN), None, None, None),
    Body(Some("u1"), Some("mix"), None, Some(5), None, None),
    Body(Some("u1"), Some("mix"), None, None, Some("vocals"), None),
    Body(Some("u1"), Some("master"), None, None, None, Some("bogus")) }

StreamingBody == Body(Some("u1"), Some("master"), None, None, None, Some("streaming"))

Bodies == ValidBodies \cup InvalidBodies \cup {StreamingBody}

(* the bodies tried where a single job runs *)
SoloBodies ==
  Bodies \cup { Body(Some("u3"), Some("4d"), Some(20), Some(0), Some("none"), Some("loud")) }

(* The engine is deterministic: what it measures depends on the audio behind *)
(* the URL.  Band measurements parsed from its volumedetect output:         *)
ProfileAt(url) ==
  CASE url = "u1" -> [lowMean |-> -200, midMean |-> -180, highMean |-> -300,
                      fullMean |-> -170, fullMax |-> -30]
    [] url = "u2" -> [lowMean |-> -300, midMean |-> -180, highMean |-> -300,
                      fullMean |-> -170, fullMax |-> -5]
    [] OTHER -> [lowMean |-> -200, midMean |-> -280, highMean |-> NullNum,
                 fullMean |-> -310, fullMax |-> -120]

(* the loudnorm measurement report in the engine's JSON block; the report   *)
(* for u4 comes without its target_offset                                   *)
ReportAt(url) ==
  CASE url = "u1" -> [input_i |-> -183, input_tp |-> -21, input_lra |-> 64,
                      input_thresh |-> -285, target_offset |-> 3]
    [] url = "u2" -> [input_i |-> -95, input_tp |-> 2, input_lra |-> 31,
                      input_thresh |-> -197, target_offset |-> -4]
    [] url = "u4" -> [input_i |-> -120, input_tp |-> -15, input_lra |-> 50,
                      input_thresh |-> -225]
    [] OTHER -> [input_i |-> -302, input_tp |-> -110, input_lra |-> 120,
                 input_thresh |-> -410, target_offset |-> 11]

ReportKeys == <<"input_i", "input_tp", "input_lra", "input_thresh", "target_offset">>

(* the JSON block that prints a report *)
ReportText(r) ==
  LET Present(k) == k \in DOMAIN r
      keys == SelectSeq(ReportKeys, Present)
  IN  <<Word("{")>> \o [i \in 1..Len(keys) |-> JsonMember(keys[i], r[keys[i]])] \o <<Word("}")>>

(* what the measure pass prints: the report, no JSON block, or a block that *)
(* is not JSON                                                             *)
LoudnormOutput(url, o) ==
  CASE o = "nojson" -> <<Word("[Parsed_loudnorm_0]")>>
    [] o = "badjson" -> <<Word("{"), Word("input_i"), Word("}")>>
    [] OTHER -> <<Word("[Parsed_loudnorm_0]")>> \o ReportText(ReportAt(url))

FetchOutcomes == {"ok", "http_error", "network_error"}
BodyOutcomes == {"data", "empty", "network_error", "write_error"}
FsOutcomes == {"ok", "fail"}
EngineOutcomes == {"ok", "fail"}
OutputOutcomes == {"data", "empty", "missing"}
MeasureOutcomes == {"ok", "fail", "nojson", "badjson"}

Ratings == {"satisfied", "bogus"}

(* ------------------------------- state --------------------------------- *)
VARIABLES
  jobs,                  \* the jobs Map: job id -> job record
  classificationEvents,  \* the in-memory recent-events array
  sinkLog,               \* ids of the lines appended to the NDJSON file
  sinkUp,                \* whether appendFileSync succeeds
  pc,                    \* position of each job's processJob call
  cur,                   \* job whose synchronous section is running, or Idle
  pending,               \* message of the error thrown and not yet caught
  locals,                \* processJob's opts, bandAnalysis.tags and measured
  fetched,               \* how each job's fetch settled
  files,                 \* scratch files /tmp/<id>/{input.bin,output.wav}
  history,               \* stages each job has started, in order
  responded,             \* POST /enhance has answered {jobId}
  recorded,              \* every event passed to logClassification so far
  nFeedback,             \* feedback requests accepted so far
  af,                    \* the -af filter graphs each job passed to the engine
  arg,                   \* argument of a function called on its own
  ret                    \* what that call returned

vars == <<jobs, classificationEvents, sinkLog, sinkUp, pc, cur, pending, locals, fetched,
          files, history, responded, recorded, nFeedback, af, arg, ret>>

NoFiles == [raw |-> "missing", out |-> "missing"]
NoLocals == [opts |-> None, tags |-> None, measured |-> None]

Init ==
  /\ jobs = <<>>
  /\ classificationEvents = <<>>
  /\ sinkLog = <<>>
  /\ sinkUp \in BOOLEAN
  /\ pc = [j \in JobIds |-> "none"]
  /\ cur = Idle
  /\ pending = [j \in JobIds |-> None]
  /\ locals = [j \in JobIds |-> NoLocals]
  /\ fetched = [j \in JobIds |-> "none"]
  /\ files = [j \in JobIds |-> NoFiles]
  /\ history = [j \in JobIds |-> <<>>]
  /\ responded = [j \in JobIds |-> FALSE]
  /\ recorded = <<>>
  /\ nFeedback = 0
  /\ af = [j \in JobIds |-> <<>>]
  /\ arg = None
  /\ ret = None

(* nanoid(): a fresh identifier *)
NextJobId == Cardinality(DOMAIN jobs) + 1
NextEventId == Len(recorded) + 1

(* x ?? d *)
orElse(x, d) == IF x = None THEN d ELSE x[1]

(* the whole of logClassification(event) *)
Log(event) ==
  /\ classificationEvents' = logClassification(classificationEvents, event)
  /\ sinkLog' = sinkAppend(sinkLog, sinkUp, event)
  /\ recorded' = Append(recorded, event)

EventMutNoAnalysis(js, type, jobId, error, fb) ==
  [eventType |-> type, id |-> NextEventId, createdAt |-> Now, jobId |-> jobId,
   request |-> jobField(js, jobId, "request"),
   analysis |-> None,
   renderPlan |-> jobField(js, jobId, "renderPlan"),
   error |-> error, feedback |-> fb]

Event(js, type, jobId, error, fb) ==
  [eventType |-> type, id |-> NextEventId, createdAt |-> Now, jobId |-> jobId,
   request |-> jobField(js, jobId, "request"),
   analysis |-> jobField(js, jobId, "analysis"),
   renderPlan |-> jobField(js, jobId, "renderPlan"),
   error |-> error, feedback |-> fb]

(* ------------------------- POST /enhance ------------------------------- *)
InRange(x, lo, hi) == x # NaN /\ x >= lo /\ x <= hi

requestOf(body) ==
  [inputFileUrl |-> orElse(body.inputFileUrl, ""),
   enhancementType |-> orElse(body.enhancementType, ""),
   speedMultiplier |-> orElse(body.speedMultiplier, 10),
   pitchSemitones |-> orElse(body.pitchSemitones, 0),
   focus |-> orElse(body.focus, "none"),
   masterProfile |-> orElse(body.masterProfile, "spotify")]

validateMutNoSpeedCheck(body) ==
  LET r == requestOf(body)
  IN  IF r.inputFileUrl = "" THEN "Missing inputFileUrl"
      ELSE IF r.enhancementType \notin {"mix", "master", "4d"} THEN "Invalid enhancementType"
      ELSE IF ~InRange(r.pitchSemitones, -4, 4) THEN "Invalid pitchSemitones"
      ELSE IF r.focus \notin {"none", "bass", "presence", "air", "wide", "punch"}
        THEN "Invalid focus"
      ELSE IF r.masterProfile \notin {"spotify", "apple_music", "soundcloud", "loud"}
        THEN "Invalid masterProfile"
      ELSE "ok"

(* the 400 answers of POST /enhance, in the order of the checks; "ok" if none *)
validate(body) ==
  LET r == requestOf(body)
  IN  IF r.inputFileUrl = "" THEN "Missing inputFileUrl"
      ELSE IF r.enhancementType \notin {"mix", "master", "4d"} THEN "Invalid enhancementType"
      ELSE IF ~InRange(r.speedMultiplier, 5, 20) THEN "Invalid speedMultiplier"
      ELSE IF ~InRange(r.pitchSemitones, -4, 4) THEN "Invalid pitchSemitones"
      ELSE IF r.focus \notin {"none", "bass", "presence", "air", "wide", "punch"}
        THEN "Invalid focus"
      ELSE IF r.masterProfile \notin {"spotify", "apple_music", "soundcloud", "loud"}
        THEN "Invalid masterProfile"
      ELSE "ok"

(* validation (a 400 answer writes nothing), then setJob(jobId, {status: "queued", ...}) *)
Submit(body) ==
  /\ cur = Idle
  /\ IF validate(body) # "ok"
       THEN UNCHANGED vars
       ELSE /\ NextJobId \in JobIds
            /\ jobs' = setJob(jobs, NextJobId,
                              [status |-> Some("queued"), createdAt |-> Some(Now),
                               request |-> Some(requestOf(body))])
            /\ pc' = [pc EXCEPT ![NextJobId] = "queued"]
            /\ cur' = NextJobId
            /\ locals' = [locals EXCEPT ![NextJobId].opts = Some(requestOf(body))]
            /\ UNCHANGED <<classificationEvents, sinkLog, sinkUp, pending, fetched, files,
                           history, responded, recorded, nFeedback>>
  /\ UNCHANGED <<af, arg, ret>>

(* throw new Error(msg) inside processJob: the promise is rejected and the  *)
(* .catch reaction runs before the event loop takes another request        *)
Throw(j, msg) ==
  /\ pending' = [pending EXCEPT ![j] = Some(msg)]
  /\ pc' = [pc EXCEPT ![j] = "threw"]
  /\ cur' = j

ProcessJobStartMutKeepsQueued(j, o) ==
  /\ cur = j
  /\ pc[j] = "queued"
  /\ jobs' = setJob(jobs, j, [step |-> Some("Downloading audio...")])
  /\ IF o = "fail"
       THEN /\ Throw(j, "EACCES: mkdir")
            /\ UNCHANGED history
       ELSE /\ history' = [history EXCEPT ![j] = Append(@, "fetch")]
            /\ pc' = [pc EXCEPT ![j] = "awaitFetch"]
            /\ UNCHANGED <<pending, cur>>
  /\ UNCHANGED <<classificationEvents, sinkLog, sinkUp, locals, fetched, files,
                 responded, recorded, nFeedback>>
  /\ UNCHANGED <<af, arg, ret>>

(* processJob up to its first await: status processing, mkdirSync (which    *)
(* may throw), fetch issued                                                *)
ProcessJobStart(j, o) ==
  /\ cur = j
  /\ pc[j] = "queued"
  /\ jobs' = setJob(jobs, j, [status |-> Some("processing"),
                              step |-> Some("Downloading audio...")])
  /\ IF o = "fail"
       THEN /\ Throw(j, "EACCES: mkdir")
            /\ UNCHANGED history
       ELSE /\ history' = [history EXCEPT ![j] = Append(@, "fetch")]
            /\ pc' = [pc EXCEPT ![j] = "awaitFetch"]
            /\ UNCHANGED <<pending, cur>>
  /\ UNCHANGED <<classificationEvents, sinkLog, sinkUp, locals, fetched, files,
                 responded, recorded, nFeedback>>
  /\ UNCHANGED <<af, arg, ret>>

SubmitRespondMutAwaitsJob(j) ==
  /\ cur = j
  /\ pc[j] \in {"awaitFetch", "threw"}
  /\ ~responded[j]
  /\ pending[j] = None
  /\ cur' = Idle
  /\ UNCHANGED <<jobs, classificationEvents, sinkLog, sinkUp, pc, pending, locals, fetched,
                 files, history, responded, recorded, nFeedback, af, arg, ret>>

(* .catch attached; res.json({ jobId }); the handler returns.  A promise     *)
(* already rejected has its .catch reaction run next, as a microtask.      *)
SubmitRespond(j) ==
  /\ cur = j
  /\ pc[j] \in {"awaitFetch", "threw"}
  /\ ~responded[j]
  /\ responded' = [responded EXCEPT ![j] = TRUE]
  /\ cur' = IF pc[j] = "threw" THEN j ELSE Idle
  /\ UNCHANGED <<jobs, classificationEvents, sinkLog, sinkUp, pc, pending, locals, fetched, files,
                 history, recorded, nFeedback>>
  /\ UNCHANGED <<af, arg, ret>>

FetchReturnsMutNoOkCheck(j, o) ==
  /\ cur = Idle
  /\ pc[j] = "awaitFetch"
  /\ IF o = "network_error"
       THEN Throw(j, "fetch failed")
       ELSE /\ pc' = [pc EXCEPT ![j] = "awaitBody"]
            /\ UNCHANGED <<pending, cur>>
  /\ fetched' = [fetched EXCEPT ![j] = o]
  /\ UNCHANGED <<jobs, classificationEvents, sinkLog, sinkUp, locals, files, history,
                 responded, recorded, nFeedback>>
  /\ UNCHANGED <<af, arg, ret>>

(* await fetch(url) settles; if (!r.ok) throw; r.arrayBuffer() is awaited *)
FetchReturns(j, o) ==
  /\ cur = Idle
  /\ pc[j] = "awaitFetch"
  /\ CASE o = "network_error" -> Throw(j, "fetch failed")
       [] o = "http_error" -> Throw(j, "Failed to fetch input file: 404")
       [] OTHER -> /\ pc' = [pc EXCEPT ![j] = "awaitBody"]
                   /\ UNCHANGED <<pending, cur>>
  /\ fetched' = [fetched EXCEPT ![j] = o]
  /\ UNCHANGED <<jobs, classificationEvents, sinkLog, sinkUp, locals, files, history,
                 responded, recorded, nFeedback>>
  /\ UNCHANGED <<af, arg, ret>>

(* await r.arrayBuffer() settles; writeFileSync(raw); step "Decoding..." *)
BodyReturns(j, o) ==
  /\ cur = Idle
  /\ pc[j] = "awaitBody"
  /\ IF o \in {"network_error", "write_error"}
       THEN /\ Throw(j, IF o = "network_error" THEN "terminated" ELSE "ENOSPC: write")
            /\ UNCHANGED <<jobs, files>>
       ELSE /\ files' = [files EXCEPT ![j].raw = o]
            /\ jobs' = setJob(jobs, j, [step |-> Some("Decoding & preparing audio...")])
            /\ pc' = [pc EXCEPT ![j] = "decode"]
            /\ cur' = j
            /\ UNCHANGED pending
  /\ UNCHANGED <<classificationEvents, sinkLog, sinkUp, locals, fetched, history, responded,
                 recorded, nFeedback>>
  /\ UNCHANGED <<af, arg, ret>>

(* opts: the arguments POST /enhance passed to processJob *)
optsOf(j) == locals[j].opts[1]
(* processJob's local bandAnalysis.tags *)
tagsOf(j) == locals[j].tags[1]

DecodeMutYields(j, o) ==
  /\ cur = j
  /\ pc[j] = "decode"
  /\ history' = [history EXCEPT ![j] = Append(@, "decode")]
  /\ IF o = "fail" \/ files[j].raw = "empty"
       THEN /\ Throw(j, "engine: decode")
            /\ UNCHANGED jobs
       ELSE /\ jobs' = setJob(jobs, j, [step |-> Some("Analyzing tone & dynamics...")])
            /\ pc' = [pc EXCEPT ![j] = "analyze"]
            /\ cur' = Idle
            /\ UNCHANGED pending
  /\ UNCHANGED <<classificationEvents, sinkLog, sinkUp, locals, fetched, files, responded,
                 recorded, nFeedback>>
  /\ UNCHANGED <<af, arg, ret>>

(* runFfmpegAll(["-y", "-i", raw, ..., wav]); step "Analyzing..."          *)
(* (the engine cannot decode an empty input)                               *)
Decode(j, o) ==
  /\ cur = j
  /\ pc[j] = "decode"
  /\ history' = [history EXCEPT ![j] = Append(@, "decode")]
  /\ IF o = "fail" \/ files[j].raw = "empty"
       THEN /\ Throw(j, "engine: decode")
            /\ UNCHANGED jobs
       ELSE /\ jobs' = setJob(jobs, j, [step |-> Some("Analyzing tone & dynamics...")])
            /\ pc' = [pc EXCEPT ![j] = "analyze"]
            /\ UNCHANGED <<pending, cur>>
  /\ UNCHANGED <<classificationEvents, sinkLog, sinkUp, locals, fetched, files, responded,
                 recorded, nFeedback>>
  /\ UNCHANGED <<af, arg, ret>>

summaryOf(tags) == IF Len(tags) > 0 THEN <<"Detected: ">> \o tags ELSE <<"Detected: balanced">>

analysisOf(p) ==
  [tags |-> analyzeBands(p).tags, profile |-> analyzeBands(p).profile,
   summary |-> summaryOf(analyzeBands(p).tags)]

(* analyzeBands(wav): four volumedetect runs; setJob(jobId, { analysis }) *)
Analyze(j, o) ==
  /\ cur = j
  /\ pc[j] = "analyze"
  /\ history' = [history EXCEPT ![j] = Append(@, "analyze")]
  /\ IF o = "fail"
       THEN /\ Throw(j, "engine: volumedetect")
            /\ UNCHANGED <<jobs, locals>>
       ELSE /\ locals' = [locals EXCEPT
                            ![j].tags = Some(analyzeBands(ProfileAt(optsOf(j).inputFileUrl)).tags)]
            /\ jobs' = setJob(jobs, j,
                              [analysis |-> Some(analysisOf(ProfileAt(optsOf(j).inputFileUrl)))])
            /\ pc' = [pc EXCEPT ![j] = "plan"]
            /\ UNCHANGED <<pending, cur>>
  /\ UNCHANGED <<classificationEvents, sinkLog, sinkUp, fetched, files, responded,
                 recorded, nFeedback>>
  /\ UNCHANGED <<af, arg, ret>>

renderPlanOf(tags, opts) ==
  [tags |-> tags,
   actions |-> [adaptiveToneFilters |-> buildAdaptiveTone(tags),
                focus |-> opts.focus,
                focusFilters |-> getFocusFilters(opts.focus),
                speedMultiplier |-> opts.speedMultiplier,
                pitchSemitones |-> opts.pitchSemitones,
                enhancementType |-> opts.enhancementType,
                masterProfile |-> opts.masterProfile],
   safety |-> [mixTarget |-> getMixTarget,
               masterTarget |-> getMasterTarget(opts.masterProfile)]]

(* the step labels set before each render stage, per mode *)
preStep(opts) ==
  CASE opts.enhancementType = "mix" -> "Applying mix enhancements (EQ/Dynamics/Space)..."
    [] opts.enhancementType = "4d" -> "Creating 4D space..."
    [] OTHER -> "Measuring loudness (LUFS/True Peak)..."

measureStep(opts) ==
  CASE opts.enhancementType = "mix" -> "Balancing loudness & true peak (EBU R128)..."
    [] opts.enhancementType = "4d" -> "Balancing loudness & true peak..."
    [] OTHER -> "Normalizing to platform target (EBU R128 / BS.1770)..."

finalStep(opts) ==
  CASE opts.enhancementType = "mix" -> "Finalizing mix..."
    [] opts.enhancementType = "4d" -> "Finalizing 4D output..."
    [] opts.masterProfile = "apple_music" -> "Finalizing Apple Music master..."
    [] opts.masterProfile = "soundcloud" -> "Finalizing SoundCloud master..."
    [] opts.masterProfile = "loud" -> "Finalizing loud master..."
    [] OTHER -> "Finalizing Spotify master..."

PlanMutSkipsPreRender(j) ==
  /\ cur = j
  /\ pc[j] = "plan"
  /\ jobs' = setJob(setJob(jobs, j, [renderPlan |-> Some(renderPlanOf(tagsOf(j), optsOf(j)))]),
                    j, [step |-> Some(measureStep(optsOf(j)))])
  /\ pc' = [pc EXCEPT ![j] = "measure"]
  /\ UNCHANGED <<classificationEvents, sinkLog, sinkUp, cur, pending, locals, fetched, files,
                 history, responded, recorded, nFeedback>>
  /\ UNCHANGED <<af, arg, ret>>

(* setJob(jobId, { renderPlan }); then the mode's first step label *)
Plan(j) ==
  /\ cur = j
  /\ pc[j] = "plan"
  /\ jobs' = setJob(setJob(jobs, j, [renderPlan |-> Some(renderPlanOf(tagsOf(j), optsOf(j)))]),
                    j, [step |-> Some(preStep(optsOf(j)))])
  /\ pc' = [pc EXCEPT ![j] = "prerender"]
  /\ UNCHANGED <<classificationEvents, sinkLog, sinkUp, cur, pending, locals, fetched, files,
                 history, responded, recorded, nFeedback>>
  /\ UNCHANGED <<af, arg, ret>>

(* runFfmpegAll(["-y", "-i", wav, "-af", chain, pre]); next step label *)
PreRender(j, o) ==
  /\ cur = j
  /\ pc[j] = "prerender"
  /\ history' = [history EXCEPT ![j] = Append(@, "prerender")]
  /\ af' = [af EXCEPT ![j] = Append(@, preChain(optsOf(j), tagsOf(j)))]
  /\ IF o = "fail"
       THEN /\ Throw(j, "engine: prerender")
            /\ UNCHANGED jobs
       ELSE /\ jobs' = setJob(jobs, j, [step |-> Some(measureStep(optsOf(j)))])
            /\ pc' = [pc EXCEPT ![j] = "measure"]
            /\ UNCHANGED <<pending, cur>>
  /\ UNCHANGED <<classificationEvents, sinkLog, sinkUp, locals, fetched, files, responded,
                 recorded, nFeedback>>
  /\ UNCHANGED <<arg, ret>>

MeasureMutDefaultsOnNoJson(j, o) ==
  /\ cur = j
  /\ pc[j] = "measure"
  /\ history' = [history EXCEPT ![j] = Append(@, "measure")]
  /\ af' = [af EXCEPT ![j] = Append(@, <<loudnormMeasureFilter(targetOf(optsOf(j)))>>)]
  /\ CASE o = "fail" -> /\ Throw(j, "engine: loudnorm measure")
                        /\ UNCHANGED <<jobs, locals>>
       [] OTHER -> /\ locals' = [locals EXCEPT
                                   ![j].measured =
                                     IF parseLoudnormJson(LoudnormOutput(optsOf(j).inputFileUrl, o)) = None
                                       THEN Some([k \in Range(ReportKeys) |-> 0])
                                       ELSE parseLoudnormJson(LoudnormOutput(optsOf(j).inputFileUrl, o))]
                   /\ jobs' = setJob(jobs, j, [step |-> Some(finalStep(optsOf(j)))])
                   /\ pc' = [pc EXCEPT ![j] = "final"]
                   /\ UNCHANGED <<pending, cur>>
  /\ UNCHANGED <<classificationEvents, sinkLog, sinkUp, fetched, files, responded,
                 recorded, nFeedback>>
  /\ UNCHANGED <<arg, ret>>

(* loudnormMeasure(pre, target): engine run, parseLoudnormJson, throw on null *)
Measure(j, o) ==
  /\ cur = j
  /\ pc[j] = "measure"
  /\ history' = [history EXCEPT ![j] = Append(@, "measure")]
  /\ af' = [af EXCEPT ![j] = Append(@, <<loudnormMeasureFilter(targetOf(optsOf(j)))>>)]
  /\ CASE o = "fail" -> /\ Throw(j, "engine: loudnorm measure")
                        /\ UNCHANGED <<jobs, locals>>
       [] o # "fail" /\ parseLoudnormJson(LoudnormOutput(optsOf(j).inputFileUrl, o)) = None ->
                        /\ Throw(j, "Loudnorm measurement failed (JSON missing)")
                        /\ UNCHANGED <<jobs, locals>>
       [] OTHER -> /\ locals' = [locals EXCEPT
                                   ![j].measured =
                                     parseLoudnormJson(LoudnormOutput(optsOf(j).inputFileUrl, o))]
                   /\ jobs' = setJob(jobs, j, [step |-> Some(finalStep(optsOf(j)))])
                   /\ pc' = [pc EXCEPT ![j] = "final"]
                   /\ UNCHANGED <<pending, cur>>
  /\ UNCHANGED <<classificationEvents, sinkLog, sinkUp, fetched, files, responded,
                 recorded, nFeedback>>
  /\ UNCHANGED <<arg, ret>>

(* runFfmpegAll(["-y", "-i", pre, "-af", final, out]): a run that exits 0    *)
(* leaves output.wav with data, empty or missing; a failed run leaves it    *)
(* missing or partly written                                               *)
FinalRender(j, o, f) ==
  /\ cur = j
  /\ pc[j] = "final"
  /\ o = "fail" => f # "empty"
  /\ history' = [history EXCEPT ![j] = Append(@, "apply")]
  /\ af' = [af EXCEPT ![j] = Append(@, finalChain(targetOf(optsOf(j)), locals[j].measured[1]))]
  /\ files' = [files EXCEPT ![j].out = f]
  /\ IF o = "fail"
       THEN Throw(j, "engine: final render")
       ELSE /\ pc' = [pc EXCEPT ![j] = "check"]
            /\ UNCHANGED <<pending, cur>>
  /\ UNCHANGED <<jobs, classificationEvents, sinkLog, sinkUp, locals, fetched, responded,
                 recorded, nFeedback>>
  /\ UNCHANGED <<arg, ret>>

(* if (!fs.existsSync(out)) throw ... *)
outputAccepted(f) == f # "missing"

OutputCheckMutYieldsAfterLog(j) ==
  /\ cur = j
  /\ pc[j] = "check"
  /\ history' = [history EXCEPT ![j] = Append(@, "check")]
  /\ IF ~outputAccepted(files[j].out)
       THEN /\ Throw(j, "Output missing after render")
            /\ UNCHANGED <<classificationEvents, sinkLog, recorded>>
       ELSE /\ Log(Event(jobs, "render_completed", j, None, None))
            /\ pc' = [pc EXCEPT ![j] = "logged"]
            /\ cur' = Idle
            /\ UNCHANGED pending
  /\ UNCHANGED <<jobs, sinkUp, locals, fetched, files, responded, nFeedback>>
  /\ UNCHANGED <<af, arg, ret>>

OutputCheckMutLogsFirst(j) ==
  /\ cur = j
  /\ pc[j] = "check"
  /\ history' = [history EXCEPT ![j] = Append(@, "check")]
  /\ Log(Event(jobs, "render_completed", j, None, None))
  /\ IF ~outputAccepted(files[j].out)
       THEN Throw(j, "Output missing after render")
       ELSE /\ pc' = [pc EXCEPT ![j] = "logged"]
            /\ UNCHANGED <<pending, cur>>
  /\ UNCHANGED <<jobs, sinkUp, locals, fetched, files, responded, nFeedback>>
  /\ UNCHANGED <<af, arg, ret>>

(* the output check, then logClassification({eventType: "render_completed"}) *)
OutputCheck(j) ==
  /\ cur = j
  /\ pc[j] = "check"
  /\ history' = [history EXCEPT ![j] = Append(@, "check")]
  /\ IF ~outputAccepted(files[j].out)
       THEN /\ Throw(j, "Output missing after render")
            /\ UNCHANGED <<classificationEvents, sinkLog, recorded>>
       ELSE /\ Log(Event(jobs, "render_completed", j, None, None))
            /\ IF sinkFailureEscapes(sinkUp)
                 THEN Throw(j, "sink unavailable")
                 ELSE /\ pc' = [pc EXCEPT ![j] = "logged"]
                      /\ UNCHANGED <<pending, cur>>
  /\ UNCHANGED <<jobs, sinkUp, locals, fetched, files, responded, nFeedback>>
  /\ UNCHANGED <<af, arg, ret>>

MarkDoneMutNoUrl(j) ==
  /\ cur = j
  /\ pc[j] = "logged"
  /\ jobs' = setJob(jobs, j, [status |-> Some("done"), finishedAt |-> Some(Now)])
  /\ pc' = [pc EXCEPT ![j] = "done"]
  /\ cur' = Idle
  /\ UNCHANGED <<classificationEvents, sinkLog, sinkUp, pending, locals, fetched, files, history,
                 responded, recorded, nFeedback>>
  /\ UNCHANGED <<af, arg, ret>>

(* setJob(jobId, {status: "done", enhancedFileUrl, finishedAt}); return *)
MarkDone(j) ==
  /\ cur = j
  /\ pc[j] = "logged"
  /\ jobs' = setJob(jobs, j, [status |-> Some("done"),
                              enhancedFileUrl |-> Some(<<"/download/", j>>),
                              finishedAt |-> Some(Now)])
  /\ pc' = [pc EXCEPT ![j] = "done"]
  /\ cur' = Idle
  /\ UNCHANGED <<classificationEvents, sinkLog, sinkUp, pending, locals, fetched, files, history,
                 responded, recorded, nFeedback>>
  /\ UNCHANGED <<af, arg, ret>>

CatchMutUnhandled(j) ==
  /\ cur = j
  /\ pc[j] = "threw"
  /\ responded[j]
  /\ pc' = [pc EXCEPT ![j] = "unhandled"]
  /\ cur' = Idle
  /\ UNCHANGED <<jobs, classificationEvents, sinkLog, sinkUp, pending, locals, fetched,
                 files, history, responded, recorded, nFeedback>>
  /\ UNCHANGED <<af, arg, ret>>

CatchMutFailsEveryJob(j) ==
  /\ cur = j
  /\ pc[j] = "threw"
  /\ responded[j]
  /\ jobs' = [k \in DOMAIN jobs |->
               setJob(jobs, k, [status |-> Some("failed"), error |-> pending[j],
                                failedAt |-> Some(Now)])[k]]
  /\ Log(Event(jobs', "render_failed", j, pending[j], None))
  /\ pending' = [pending EXCEPT ![j] = None]
  /\ pc' = [pc EXCEPT ![j] = "failed"]
  /\ cur' = Idle
  /\ UNCHANGED <<sinkUp, locals, fetched, files, history, responded, nFeedback>>
  /\ UNCHANGED <<af, arg, ret>>

(* the .catch handler of POST /enhance: status failed, render_failed event *)
Catch(j) ==
  /\ cur = j
  /\ pc[j] = "threw"
  /\ responded[j]
  /\ jobs' = setJob(jobs, j, [status |-> Some("failed"), error |-> pending[j],
                              failedAt |-> Some(Now)])
  /\ Log(Event(jobs', "render_failed", j, pending[j], None))
  /\ pending' = [pending EXCEPT ![j] = None]
  /\ pc' = [pc EXCEPT ![j] = "failed"]
  /\ cur' = Idle
  /\ UNCHANGED <<sinkUp, locals, fetched, files, history, responded, nFeedback>>
  /\ UNCHANGED <<af, arg, ret>>

(* --------------------------- read handlers ----------------------------- *)
(* GET /jobs/:id answers 404 for an unknown id, else the record *)
PollResponse(h) == IF jobsGet(jobs, h) = None THEN 404 ELSE 200

Poll(h) ==
  /\ cur = Idle
  /\ PollResponse(h) \in {200, 404}
  /\ UNCHANGED vars

(* fs.existsSync(`/tmp/${id}/output.wav`) *)
outputExists(h) == h \in JobIds /\ files[h].out # "missing"

(* GET /download/:id *)
DownloadResponse(h) == IF outputExists(h) THEN 200 ELSE 404

Download(h) ==
  /\ cur = Idle
  /\ DownloadResponse(h) \in {200, 404}
  /\ UNCHANGED vars

(* classificationEvents.slice(-50) *)
sliceLast(seq, n) == IF Len(seq) <= n THEN seq ELSE SubSeq(seq, Len(seq) - n + 1, Len(seq))

(* GET /classification/recent *)
RecentResponse ==
  [count |-> Len(classificationEvents), events |-> sliceLast(classificationEvents, RecentCount)]

Recent ==
  /\ cur = Idle
  /\ RecentResponse.count >= 0
  /\ UNCHANGED vars

FeedbackMutRequiresJob(h, rating) ==
  /\ cur = Idle
  /\ IF h = EmptyHandle \/ rating \notin {"satisfied", "not_satisfied"} \/ h \notin DOMAIN jobs
       THEN UNCHANGED vars
       ELSE /\ nFeedback < MaxFeedback
            /\ Log(Event(jobs, "feedback", h, None,
                         Some([rating |-> rating, reason |-> "", notes |-> "", userId |-> None])))
            /\ nFeedback' = nFeedback + 1
            /\ UNCHANGED <<jobs, sinkUp, pc, cur, pending, locals, fetched, files, history, responded>>
  /\ UNCHANGED <<af, arg, ret>>

FeedbackMutTouchesJob(h, rating) ==
  /\ cur = Idle
  /\ IF h = EmptyHandle \/ rating \notin {"satisfied", "not_satisfied"}
       THEN UNCHANGED vars
       ELSE /\ nFeedback < MaxFeedback
            /\ Log(Event(jobs, "feedback", h, None,
                         Some([rating |-> rating, reason |-> "", notes |-> "", userId |-> None])))
            /\ nFeedback' = nFeedback + 1
            /\ jobs' = IF h \in DOMAIN jobs THEN setJob(jobs, h, [step |-> Some("Feedback received")])
                       ELSE jobs
            /\ UNCHANGED <<sinkUp, pc, cur, pending, locals, fetched, files, history, responded>>
  /\ UNCHANGED <<af, arg, ret>>

(* POST /feedback *)
Feedback(h, rating) ==
  /\ cur = Idle
  /\ IF h = EmptyHandle \/ rating \notin {"satisfied", "not_satisfied"}
       THEN UNCHANGED vars
       ELSE /\ nFeedback < MaxFeedback
            /\ Log(Event(jobs, "feedback", h, None,
                         Some([rating |-> rating, reason |-> "", notes |-> "", userId |-> None])))
            /\ nFeedback' = nFeedback + 1
            /\ UNCHANGED <<jobs, sinkUp, pc, cur, pending, locals, fetched, files, history, responded>>
  /\ UNCHANGED <<af, arg, ret>>

(* --------------------------- specification ----------------------------- *)
Pipeline(j) ==
  \/ \E o \in FsOutcomes : ProcessJobStart(j, o)
  \/ SubmitRespond(j)
  \/ \E o \in FetchOutcomes : FetchReturns(j, o)
  \/ \E o \in BodyOutcomes : BodyReturns(j, o)
  \/ \E o \in EngineOutcomes : Decode(j, o)
  \/ \E o \in EngineOutcomes : Analyze(j, o)
  \/ Plan(j)
  \/ \E o \in EngineOutcomes : PreRender(j, o)
  \/ \E o \in MeasureOutcomes : Measure(j, o)
  \/ \E o \in EngineOutcomes, f \in OutputOutcomes : FinalRender(j, o, f)
  \/ OutputCheck(j)
  \/ MarkDone(j)
  \/ Catch(j)

Next ==
  \/ \E body \in Bodies : Submit(body)
  \/ \E j \in JobIds : Pipeline(j)
  \/ \E h \in Handles \ {EmptyHandle} : Poll(h)
  \/ \E h \in Handles \ {EmptyHandle} : Download(h)
  \/ Recent
  \/ \E h \in Handles, rating \in Ratings : Feedback(h, rating)

Spec == Init /\ [][Next]_vars

(* every pipeline step eventually runs: the fetch and every engine call     *)
(* return, and the event loop runs each continuation                        *)
FairSpec == Spec /\ \A j \in JobIds : WF_vars(Pipeline(j))

(* the event log after a long uptime: n feedback posts for an unknown job   *)
PastEvent(i) ==
  [eventType |-> "feedback", id |-> i, createdAt |-> Now, jobId |-> UnknownId,
   request |-> None, analysis |-> None, renderPlan |-> None, error |-> None,
   feedback |-> Some([rating |-> "satisfied", reason |-> "", notes |-> "", userId |-> None])]

PastLog(n) == [i \in 1..n |-> PastEvent(i)]

MaxLogJobs == 1
MaxTagLen == 3

InitLog ==
  /\ jobs = <<>>
  /\ \E n \in {EventCap - 1, EventCap} :
       /\ classificationEvents = PastLog(n)
       /\ recorded = PastLog(n)
       /\ sinkUp \in BOOLEAN
       /\ sinkLog = IF sinkUp THEN [i \in 1..n |-> i] ELSE <<>>
  /\ pc = [j \in JobIds |-> "none"]
  /\ cur = Idle
  /\ pending = [j \in JobIds |-> None]
  /\ locals = [j \in JobIds |-> NoLocals]
  /\ fetched = [j \in JobIds |-> "none"]
  /\ files = [j \in JobIds |-> NoFiles]
  /\ history = [j \in JobIds |-> <<>>]
  /\ responded = [j \in JobIds |-> FALSE]
  /\ nFeedback = 0
  /\ af = [j \in JobIds |-> <<>>]
  /\ arg = None
  /\ ret = None

NextLog ==
  \/ \E body \in SoloBodies : Submit(body) /\ Cardinality(DOMAIN jobs') <= MaxLogJobs
  \/ \E j \in JobIds : Pipeline(j)
  \/ \E h \in Handles \ {EmptyHandle} : Poll(h)
  \/ \E h \in Handles \ {EmptyHandle} : Download(h)
  \/ Recent
  \/ \E h \in Handles, rating \in Ratings : Feedback(h, rating)

(* the server with a log that is about to overflow *)
LogSpec == InitLog /\ [][NextLog]_vars

(* ------------------ one job of every mode and profile ------------------- *)
TargetBodies ==
  { Body(Some("u1"), Some(m), None, None, None, p) :
      m \in {"mix", "master", "4d"},
      p \in {None, Some("spotify"), Some("apple_music"), Some("soundcloud"), Some("loud")} }
  \cup { Body(Some("u4"), Some(m), None, None, None, None) : m \in {"mix", "master", "4d"} }

NextTarget ==
  \/ \E body \in TargetBodies : Submit(body) /\ Cardinality(DOMAIN jobs') <= MaxLogJobs
  \/ \E j \in JobIds : Pipeline(j)

TargetSpec == Init /\ [][NextTarget]_vars

(* ----------------------- the analyzer on its own ----------------------- *)
(* how far on either side of each threshold the measurements are drawn *)
Spread == 1

Around(t) == {Num(t + d) : d \in (-Spread)..Spread}

(* one line of a volumedetect report: with its number Num(x), with no       *)
(* number (Word("nonum")), or missing (Word("nokey"))                       *)
VolLine(key, m) ==
  IF m[1] = "n" THEN <<Word(key), m, Word("dB")>>
  ELSE IF m[2] = "nonum" THEN <<Word(key), Word("dB")>>
  ELSE <<>>

(* what one volumedetect run prints *)
VolText(mean, max) == VolLine("mean_volume:", mean) \o VolLine("max_volume:", max)

Unparsed == {Word("nokey"), Word("nonum")}
MidMeans == {Num(-180), Word("nokey")}
LowMeans == Around(-180 - 80) \cup Around(-180 + 60) \cup Unparsed
HighMeans == Around(-180 - 30) \cup Around(-180 - 140) \cup Unparsed
FullMeans == Around(-180 - 25) \cup Around(-220) \cup Unparsed
FullMaxes == Around(-10) \cup Unparsed

(* the outputs of the four runs of analyzeBands *)
VolOutputs ==
  { [low |-> VolText(l, Word("nokey")), mid |-> VolText(m, Word("nokey")),
     high |-> VolText(h, Word("nokey")), full |-> VolText(f, x)] :
       l \in LowMeans, m \in MidMeans, h \in HighMeans, f \in FullMeans, x \in FullMaxes }

InitAnalyzer ==
  /\ jobs = <<>>
  /\ classificationEvents = <<>>
  /\ sinkLog = <<>>
  /\ sinkUp = TRUE
  /\ pc = [j \in JobIds |-> "none"]
  /\ cur = Idle
  /\ pending = [j \in JobIds |-> None]
  /\ locals = [j \in JobIds |-> NoLocals]
  /\ fetched = [j \in JobIds |-> "none"]
  /\ files = [j \in JobIds |-> NoFiles]
  /\ history = [j \in JobIds |-> <<>>]
  /\ responded = [j \in JobIds |-> FALSE]
  /\ recorded = <<>>
  /\ nFeedback = 0
  /\ af = [j \in JobIds |-> <<>>]
  /\ arg \in {Some(o) : o \in VolOutputs}
  /\ ret = None

(* the parsing and tagging of analyzeBands applied to the four outputs *)
CallAnalyzeBands ==
  /\ arg # None
  /\ ret = None
  /\ ret' = Some(analyzeBands(profileOf(arg[1])))
  /\ UNCHANGED <<jobs, classificationEvents, sinkLog, sinkUp, pc, cur, pending, locals, fetched,
                 files, history, responded, recorded, nFeedback, af, arg>>

AnalyzerSpec == InitAnalyzer /\ [][CallAnalyzeBands]_vars

(* -------------------- the render chains on their own -------------------- *)
AllTags == <<"low_end_weak", "low_end_heavy", "harsh_highs", "dull_highs", "mid_forward",
             "too_loud", "too_quiet">>

(* the tags of S in the order analyzeBands pushes them *)
TagSeq(S) == LET Member(t) == t \in S IN SelectSeq(AllTags, Member)

PlanModes == {"mix", "master", "4d"}
PlanFocus == {"none", "bass", "presence", "air", "wide", "punch", "vocals"}

PlanInputs ==
  { [opts |-> [inputFileUrl |-> "u1", enhancementType |-> m, speedMultiplier |-> 10,
               pitchSemitones |-> p, focus |-> f, masterProfile |-> "apple_music"],
     tags |-> TagSeq(S), measured |-> ReportAt("u1")] :
       m \in PlanModes, p \in {0, 2}, f \in PlanFocus, S \in SUBSET Range(AllTags) }

InitPlan ==
  /\ jobs = <<>>
  /\ classificationEvents = <<>>
  /\ sinkLog = <<>>
  /\ sinkUp = TRUE
  /\ pc = [j \in JobIds |-> "none"]
  /\ cur = Idle
  /\ pending = [j \in JobIds |-> None]
  /\ locals = [j \in JobIds |-> NoLocals]
  /\ fetched = [j \in JobIds |-> "none"]
  /\ files = [j \in JobIds |-> NoFiles]
  /\ history = [j \in JobIds |-> <<>>]
  /\ responded = [j \in JobIds |-> FALSE]
  /\ recorded = <<>>
  /\ nFeedback = 0
  /\ af = [j \in JobIds |-> <<>>]
  /\ arg \in {Some(i) : i \in PlanInputs}
  /\ ret = None

(* what processJob computes from opts, the tags and the loudness report:    *)
(* the render plan and the filter graphs of its two renders                 *)
CallRenderChains ==
  /\ arg # None
  /\ ret = None
  /\ ret' = Some([plan |-> renderPlanOf(arg[1].tags, arg[1].opts),
                  pre |-> preChain(arg[1].opts, arg[1].tags),
                  final |-> finalChain(targetOf(arg[1].opts), arg[1].measured)])
  /\ UNCHANGED <<jobs, classificationEvents, sinkLog, sinkUp, pc, cur, pending, locals, fetched,
                 files, history, responded, recorded, nFeedback, af, arg>>

PlanSpec == InitPlan /\ [][CallRenderChains]_vars

(* ------------------- the second-pass filter on its own ------------------ *)
(* reports that differ from one another in any of the five values *)
Reports ==
  [input_i : {-183, -95}, input_tp : {-21, 2}, input_lra : {64, 31},
   input_thresh : {-285, -197}, target_offset : {3, -4}]

InitSecondPass ==
  /\ jobs = <<>>
  /\ classificationEvents = <<>>
  /\ sinkLog = <<>>
  /\ sinkUp = TRUE
  /\ pc = [j \in JobIds |-> "none"]
  /\ cur = Idle
  /\ pending = [j \in JobIds |-> None]
  /\ locals = [j \in JobIds |-> NoLocals]
  /\ fetched = [j \in JobIds |-> "none"]
  /\ files = [j \in JobIds |-> NoFiles]
  /\ history = [j \in JobIds |-> <<>>]
  /\ responded = [j \in JobIds |-> FALSE]
  /\ recorded = <<>>
  /\ nFeedback = 0
  /\ af = [j \in JobIds |-> <<>>]
  /\ arg \in {Some([target |-> t, a |-> a, b |-> b]) :
                t \in {getMixTarget, getMasterTarget("loud")}, a \in Reports, b \in Reports}
  /\ ret = None

(* loudnormSecondPassFilter applied to one target and each of two reports,  *)
(* each report read from the JSON block the engine prints                   *)
CallSecondPass ==
  /\ arg # None
  /\ ret = None
  /\ ret' = Some([a |-> loudnormSecondPassFilter(arg[1].target,
                                                  parseLoudnormJson(ReportText(arg[1].a))[1]),
                  b |-> loudnormSecondPassFilter(arg[1].target,
                                                  parseLoudnormJson(ReportText(arg[1].b))[1])])
  /\ UNCHANGED <<jobs, classificationEvents, sinkLog, sinkUp, pc, cur, pending, locals, fetched,
                 files, history, responded, recorded, nFeedback, af, arg>>

(* speedMultiplier in tenths over its valid range; pitchSemitones over its  *)
(* valid range and one octave either way                                   *)
TempoSpeeds == 5..20
TempoPitches == (-4..4) \cup {-12, 12}

InitTempo ==
  /\ jobs = <<>>
  /\ classificationEvents = <<>>
  /\ sinkLog = <<>>
  /\ sinkUp = TRUE
  /\ pc = [j \in JobIds |-> "none"]
  /\ cur = Idle
  /\ pending = [j \in JobIds |-> None]
  /\ locals = [j \in JobIds |-> NoLocals]
  /\ fetched = [j \in JobIds |-> "none"]
  /\ files = [j \in JobIds |-> NoFiles]
  /\ history = [j \in JobIds |-> <<>>]
  /\ responded = [j \in JobIds |-> FALSE]
  /\ recorded = <<>>
  /\ nFeedback = 0
  /\ af = [j \in JobIds |-> <<>>]
  /\ arg \in {Some([speedMultiplier |-> sp, pitchSemitones |-> pt]) :
                sp \in TempoSpeeds, pt \in TempoPitches}
  /\ ret = None

CallBuildTempoPitch ==
  /\ arg # None
  /\ ret = None
  /\ ret' = Some(buildTempoPitch(arg[1].speedMultiplier, arg[1].pitchSemitones))
  /\ UNCHANGED <<jobs, classificationEvents, sinkLog, sinkUp, pc, cur, pending, locals, fetched,
                 files, history, responded, recorded, nFeedback, af, arg>>

TempoSpec == InitTempo /\ [][CallBuildTempoPitch]_vars

(* tag lists in any order and with repeats, as a caller may pass them *)
TagSeqs == UNION {[1..n -> Range(AllTags)] : n \in 0..MaxTagLen}

InitTone ==
  /\ jobs = <<>>
  /\ classificationEvents = <<>>
  /\ sinkLog = <<>>
  /\ sinkUp = TRUE
  /\ pc = [j \in JobIds |-> "none"]
  /\ cur = Idle
  /\ pending = [j \in JobIds |-> None]
  /\ locals = [j \in JobIds |-> NoLocals]
  /\ fetched = [j \in JobIds |-> "none"]
  /\ files = [j \in JobIds |-> NoFiles]
  /\ history = [j \in JobIds |-> <<>>]
  /\ responded = [j \in JobIds |-> FALSE]
  /\ recorded = <<>>
  /\ nFeedback = 0
  /\ af = [j \in JobIds |-> <<>>]
  /\ arg \in {Some(t) : t \in TagSeqs}
  /\ ret = None

CallBuildAdaptiveTone ==
  /\ arg # None
  /\ ret = None
  /\ ret' = Some(buildAdaptiveTone(arg[1]))
  /\ UNCHANGED <<jobs, classificationEvents, sinkLog, sinkUp, pc, cur, pending, locals, fetched,
                 files, history, responded, recorded, nFeedback, af, arg>>

ToneSpec == InitTone /\ [][CallBuildAdaptiveTone]_vars

SecondPassSpec == InitSecondPass /\ [][CallSecondPass]_vars

(* ------------------------------ claims --------------------------------- *)
statusOf(js, j) == jobField(js, j, "status")
Terminal(st) == st \in {Some("done"), Some("failed")}
countEvents(seq, type, j) ==
  Cardinality({i \in 1..Len(seq) : seq[i].eventType = type /\ seq[i].jobId = j})
last(seq) == seq[Len(seq)]
(* the stage a job was in: the last it started, mkdir before the fetch *)
lastStage(j) == IF history[j] = <<>> THEN "mkdir" ELSE last(history[j])

AllowedStatusSteps ==
  { <<None, Some("queued")>>, <<Some("queued"), Some("processing")>>,
    <<Some("processing"), Some("done")>>, <<Some("processing"), Some("failed")>> }

(* C1: a job's status starts as queued and changes only along              *)
(* queued->processing, processing->done, processing->failed; so a terminal *)
(* job never changes status again and no job returns to queued.            *)
C1_StatusTransitions ==
  [][\A j \in JobIds :
       statusOf(jobs, j) # statusOf(jobs', j)
         => <<statusOf(jobs, j), statusOf(jobs', j)>> \in AllowedStatusSteps]_vars

C1_Witness ==
  /\ nFeedback = MaxFeedback
  /\ \E j, k \in JobIds : statusOf(jobs, j) = Some("done") /\ statusOf(jobs, k) = Some("failed")

(* C2: under fair scheduling of the fetch, the engine calls and the         *)
(* continuations, every submitted job eventually is done or failed.        *)
C2_EventuallyTerminal ==
  \A j \in JobIds : (j \in DOMAIN jobs) ~> Terminal(statusOf(jobs, j))

C2_Witness == \A j \in JobIds : Terminal(statusOf(jobs, j))

(* C3: once a job is done or failed, no step changes any field of its record *)
C3_TerminalImmutable ==
  [][\A j \in JobIds :
       Terminal(statusOf(jobs, j)) => (j \in DOMAIN jobs' /\ jobs'[j] = jobs[j])]_vars

C3_Witness ==
  \E j, k \in JobIds : Terminal(statusOf(jobs, j)) /\ pc[k] = "queued" /\ nFeedback > 0

(* C4: analysis and renderPlan, once set, are never changed or removed *)
C4_WriteOnce ==
  [][\A j \in JobIds : \A f \in {"analysis", "renderPlan"} :
       jobField(jobs, j, f) # None => jobField(jobs', j, f) = jobField(jobs, j, f)]_vars

C4_Witness ==
  \E j \in JobIds :
    /\ jobField(jobs, j, "analysis") # None
    /\ jobField(jobs, j, "renderPlan") # None
    /\ pc[j] \in {"done", "failed"}

(* C5: when a stage has thrown, the next step of the job makes it failed,   *)
(* stores the error text and records a render_failed event with that error *)
(* and the analysis and renderPlan the record held at the failure (null    *)
(* when the analyze stage had not completed).                              *)
C5_FailureRecorded ==
  [][\A j \in JobIds :
       (pc[j] = "threw" /\ pc'[j] # "threw")
         => /\ statusOf(jobs, j) = Some("processing")
            /\ pending[j] # None
            /\ statusOf(jobs', j) = Some("failed")
            /\ jobs'[j].error = pending[j]
            /\ Len(recorded') = Len(recorded) + 1
            /\ last(recorded').eventType = "render_failed"
            /\ last(recorded').jobId = j
            /\ last(recorded').error = jobs'[j].error
            /\ last(recorded').analysis = jobs[j].analysis
            /\ last(recorded').renderPlan = jobs[j].renderPlan
            /\ last(classificationEvents') = last(recorded')
            /\ (locals[j].tags = None
                  => last(recorded').analysis = None /\ last(recorded').renderPlan = None)
            /\ (locals[j].tags # None
                  => last(recorded').analysis # None /\ last(recorded').renderPlan # None)]_vars

C5_Witness ==
  /\ \E i \in 1..Len(recorded) :
       recorded[i].eventType = "render_failed" /\ recorded[i].analysis = None
  /\ \E i \in 1..Len(recorded) :
       recorded[i].eventType = "render_failed" /\ recorded[i].renderPlan # None

(* C6: a fetch answered with a non-success status leaves the job failed     *)
(* with the fetch error, without any engine invocation, and with one       *)
(* render_failed event whose analysis and renderPlan are null.             *)
C6_FetchFailure ==
  \A j \in JobIds :
    fetched[j] = "http_error"
      => /\ pc[j] \in {"threw", "failed"}
         /\ history[j] = <<"fetch">>
         /\ files[j] = NoFiles
         /\ pc[j] = "failed"
              => /\ statusOf(jobs, j) = Some("failed")
                 /\ jobs[j].error = Some("Failed to fetch input file: 404")
                 /\ countEvents(recorded, "render_failed", j) = 1
                 /\ \A i \in 1..Len(recorded) :
                      recorded[i].jobId = j /\ recorded[i].eventType = "render_failed"
                        => /\ recorded[i].analysis = None
                           /\ recorded[i].renderPlan = None
                           /\ recorded[i].error = jobs[j].error

C6_Witness == \E j \in JobIds : fetched[j] = "http_error" /\ pc[j] = "failed"

(* C7: a terminal job has exactly one outcome event, render_completed iff   *)
(* done and render_failed iff failed; no job ever has two outcome events.  *)
C7_OneOutcomeEvent ==
  \A j \in JobIds :
    LET c == countEvents(recorded, "render_completed", j)
        f == countEvents(recorded, "render_failed", j)
    IN  /\ c + f <= 1
        /\ statusOf(jobs, j) = Some("done") => c = 1
        /\ statusOf(jobs, j) = Some("failed") => f = 1
        /\ f = 1 => statusOf(jobs, j) = Some("failed")
        /\ c = 1 => pc[j] \in {"logged", "done"}

C7_Witness ==
  \E j, k \in JobIds :
    /\ statusOf(jobs, j) = Some("done") /\ countEvents(recorded, "render_completed", j) = 1
    /\ statusOf(jobs, k) = Some("failed") /\ countEvents(recorded, "render_failed", k) = 1

(* C8: whenever a job is done, its output file exists with non-zero size *)
C8_DoneOutputNonEmpty ==
  \A j \in JobIds : statusOf(jobs, j) = Some("done") => files[j].out = "data"

(* the errors each stage can raise *)
StageErrors(stage) ==
  CASE stage = "mkdir" -> {"EACCES: mkdir"}
    [] stage = "fetch" -> {"fetch failed", "Failed to fetch input file: 404", "terminated",
                          "ENOSPC: write"}
    [] stage = "decode" -> {"engine: decode"}
    [] stage = "analyze" -> {"engine: volumedetect"}
    [] stage = "prerender" -> {"engine: prerender"}
    [] stage = "measure" -> {"engine: loudnorm measure", "Loudnorm measurement failed (JSON missing)"}
    [] stage = "apply" -> {"engine: final render"}
    [] OTHER -> {"Output missing after render"}

(* C9: with the sink unavailable nothing reaches the file, yet a job whose  *)
(* stages all succeeded is never failed, a failed job carries the error of *)
(* its own last stage, and every event is in the in-memory view.           *)
C9_SinkFailureHarmless ==
  ~sinkUp =>
    /\ sinkLog = <<>>
    /\ Len(recorded) <= EventCap => classificationEvents = recorded
    /\ \A j \in JobIds :
         /\ (includes(history[j], "check") /\ files[j].out # "missing")
              => pc[j] \in {"logged", "done"}
         /\ pending[j] # None => pending[j][1] \in StageErrors(lastStage(j))
         /\ statusOf(jobs, j) = Some("failed")
              => jobs[j].error[1] \in StageErrors(lastStage(j))

C9_Witness ==
  /\ ~sinkUp
  /\ \E j, k \in JobIds : pc[j] = "done" /\ pc[k] = "failed"
  /\ Len(classificationEvents) >= 2

(* C10: the recent-events view holds at most 500 events and is exactly the  *)
(* last min(n, 500) of the n events recorded, in recording order.          *)
C10_RecentView ==
  /\ Len(classificationEvents) <= EventCap
  /\ classificationEvents = sliceLast(recorded, EventCap)

C10_Witness ==
  /\ Len(recorded) > EventCap
  /\ \E i, k \in 1..Len(classificationEvents) :
       /\ classificationEvents[i].eventType = "feedback"
       /\ classificationEvents[i].id > EventCap - 1
       /\ classificationEvents[k].eventType \in {"render_completed", "render_failed"}

(* the request domain as the interface states it; an absent optional field  *)
(* takes its default                                                       *)
OutOfDomain(b) ==
  \/ b.inputFileUrl = None
  \/ b.enhancementType \notin {Some("mix"), Some("master"), Some("4d")}
  \/ b.speedMultiplier # None
       /\ (b.speedMultiplier[1] = NaN \/ b.speedMultiplier[1] < 5 \/ b.speedMultiplier[1] > 20)
  \/ b.pitchSemitones # None
       /\ (b.pitchSemitones[1] = NaN \/ b.pitchSemitones[1] < -4 \/ b.pitchSemitones[1] > 4)
  \/ b.focus # None
       /\ b.focus[1] \notin {"none", "bass", "presence", "air", "wide", "punch"}
  \/ b.masterProfile # None
       /\ b.masterProfile[1] \notin {"spotify", "streaming", "apple_music", "soundcloud", "loud"}

C12_StreamingAccepted ==
  (cur = Idle /\ NextJobId \in JobIds)
    => /\ ENABLED <<Submit(StreamingBody)>>_vars
       /\ getMasterTarget(requestOf(StreamingBody).masterProfile)
            = [I |-> -140, TP |-> -10, LRA |-> 100]

(* C13: the response to a valid submission is issued by the submitting      *)
(* handler itself, while the job is non-terminal, before the job's fetch    *)
(* has completed and before any engine invocation of the job.              *)
C13_RespondsBeforeProcessing ==
  \A j \in JobIds :
    /\ (pc[j] # "none" /\ ~responded[j]) => cur = j
    /\ ~responded[j]
         => /\ ~Terminal(statusOf(jobs, j))
            /\ fetched[j] = "none"
            /\ history[j] \in {<<>>, <<"fetch">>}
            /\ af[j] = <<>>

C13_Witness ==
  \E j, k \in JobIds :
    /\ responded[j] /\ pc[j] = "awaitFetch" /\ fetched[j] = "none"
    /\ statusOf(jobs, j) = Some("processing")
    /\ responded[k] /\ statusOf(jobs, k) = Some("failed") /\ history[k] = <<>>

(* the seven threshold rules, as the tag set of a profile *)
RuleTags(p) ==
  {t \in {"low_end_weak", "low_end_heavy", "harsh_highs", "dull_highs", "mid_forward",
          "too_loud", "too_quiet"} :
     \/ t = "low_end_weak" /\ p.lowMean - p.midMean < -80
     \/ t = "low_end_heavy" /\ p.lowMean - p.midMean > 60
     \/ t = "harsh_highs" /\ p.highMean - p.midMean > -30
     \/ t = "dull_highs" /\ p.highMean - p.midMean < -140
     \/ t = "mid_forward" /\ p.midMean - p.fullMean > 25
     \/ t = "too_loud" /\ p.fullMax > -10
     \/ t = "too_quiet" /\ p.fullMean < -220}

AllFinite(p) == \A f \in DOMAIN p : IsFinite(p[f])

(* C14: for a profile with finite measurements the analyzer returns exactly  *)
(* the tags of the seven strict threshold rules, each once.                 *)
C14_TagsMatchRules ==
  (ret # None /\ AllFinite(ret[1].profile))
    => /\ Range(ret[1].tags) = RuleTags(ret[1].profile)
       /\ Len(ret[1].tags) = Cardinality(Range(ret[1].tags))

C14_Witness ==
  /\ ret # None
  /\ AllFinite(ret[1].profile)
  /\ ret[1].profile.lowMean - ret[1].profile.midMean = -80
  /\ ret[1].profile.fullMax = -10
  /\ ret[1].profile.fullMean = -221
  /\ ret[1].tags = <<"mid_forward", "too_quiet">>

(* C15: the analyzer never returns low_end_weak and low_end_heavy together. *)
C15_LowEndExclusive ==
  ret # None => ~(includes(ret[1].tags, "low_end_weak") /\ includes(ret[1].tags, "low_end_heavy"))

C15_Witness ==
  /\ ret # None
  /\ includes(ret[1].tags, "low_end_heavy")
  /\ ret[1].profile.lowMean - ret[1].profile.midMean = 61

(* the measurements each rule reads *)
RuleInputs(t) ==
  CASE t \in {"low_end_weak", "low_end_heavy"} -> {"lowMean", "midMean"}
    [] t \in {"harsh_highs", "dull_highs"} -> {"highMean", "midMean"}
    [] t = "mid_forward" -> {"midMean", "fullMean"}
    [] t = "too_loud" -> {"fullMax"}
    [] t = "too_quiet" -> {"fullMean"}

(* C16: a tag is raised only by finite measurements: every rule reading an  *)
(* unparsed measurement is skipped, and a profile with no parsed           *)
(* measurement is returned with the empty tag set.                         *)
C16_UnparsedRaisesNoTag ==
  ret # None
    => /\ \A t \in Range(ret[1].tags) : \A f \in RuleInputs(t) : IsFinite(ret[1].profile[f])
       /\ (\A f \in DOMAIN ret[1].profile : ~IsFinite(ret[1].profile[f]))
            => ret[1].tags = <<>>

C16_Witness ==
  /\ ret # None
  /\ \A f \in DOMAIN ret[1].profile : ~IsFinite(ret[1].profile[f])
  /\ arg[1].full = <<Word("mean_volume:"), Word("dB"), Word("max_volume:"), Word("dB")>>
  /\ ret[1].tags = <<>>

(* the operations applied to the audio: the first render's, then the second's *)
Applied == ret[1].pre \o ret[1].final
(* the chain before the loudness stage, without pre-gain *)
CreativeChain(i) ==
  coreChain(i.opts.enhancementType) \o buildAdaptiveTone(i.tags) \o getFocusFilters(i.opts.focus)
    \o buildTempoPitch(i.opts.speedMultiplier, i.opts.pitchSemitones)
(* the attenuation src/unnamed/part_000 put in front when too_loud is tagged *)
PreGain == F("volume=0.85")
IsLoudnessOp(op) == op[1] = loudnormSecondPassFilter(getMixTarget, ReportAt("u1"))[1]

(* C17 as stated: [pre-gain] -> core -> adaptive tone -> focus -> tempo/pitch *)
(* -> loudness stage for master only -> final limiter.                      *)
C17_FixedOrder ==
  ret # None
    => \E pg \in {<<>>, <<PreGain>>} :
         \E ln \in {<<op>> : op \in {o \in Range(Applied) : IsLoudnessOp(o)}} \cup {<<>>} :
           /\ (ln # <<>>) <=> (arg[1].opts.enhancementType = "master")
           /\ Applied = pg \o CreativeChain(arg[1]) \o ln \o <<FinalLimiter>>

(* C17 amended: the loudness stage is there in every mode.                  *)
C17_FixedOrderEveryMode ==
  ret # None
    => \E pg \in {<<>>, <<PreGain>>} :
         \E op \in {o \in Range(Applied) : IsLoudnessOp(o)} :
           Applied = pg \o CreativeChain(arg[1]) \o <<op>> \o <<FinalLimiter>>

C17_Witness ==
  /\ ret # None
  /\ arg[1].opts.enhancementType = "4d"
  /\ arg[1].opts.focus = "punch"
  /\ arg[1].opts.pitchSemitones = 2
  /\ Len(arg[1].tags) = 7
  /\ Len(Applied) = 4 + 7 + 3 + 6 + 2

(* C19 as stated: every focus selector maps to at most two operations, none *)
(* and unrecognized values to no operation.                                *)
C19_FocusAtMostTwo ==
  ret # None
    => /\ Len(ret[1].plan.actions.focusFilters) \in 0..2
       /\ arg[1].opts.focus \in {"none", "vocals"} => ret[1].plan.actions.focusFilters = <<>>

(* C19 amended: at most three operations (punch has three).                 *)
C19_FocusAtMostThree ==
  ret # None
    => /\ Len(ret[1].plan.actions.focusFilters) \in 0..3
       /\ arg[1].opts.focus \in {"none", "vocals"} => ret[1].plan.actions.focusFilters = <<>>

C19_Witness ==
  /\ ret # None
  /\ arg[1].opts.focus = "punch"
  /\ Len(ret[1].plan.actions.focusFilters) = 3

(* C18: the first render's chain starts with one attenuation operation,     *)
(* followed by the mode's core chain, exactly when the job is tagged        *)
(* too_loud; otherwise it starts with the core chain.                      *)
C18_PreGainIffTooLoud ==
  \A j \in JobIds :
    af[j] # <<>>
      => LET chain == af[j][1]
             core == coreChain(optsOf(j).enhancementType)
         IN  IF includes(tagsOf(j), "too_loud")
               THEN /\ chain[1] = PreGain
                    /\ SubSeq(chain, 2, 1 + Len(core)) = core
                    /\ PreGain \notin Range(Tail(chain))
               ELSE SubSeq(chain, 1, Len(core)) = core

(* the preset of each profile name *)
PresetOf(profile) ==
  CASE profile = "apple_music" -> <<-160, -10, 110>>
    [] profile = "soundcloud" -> <<-130, -10, 100>>
    [] profile = "spotify" -> <<-140, -10, 100>>
    [] profile = "loud" -> <<-100, -8, 80>>
    [] OTHER -> <<-140, -10, 100>>

(* the I, TP and LRA a job has to be normalized to *)
ExpectedTarget(request) ==
  IF request.enhancementType = "master" THEN PresetOf(request.masterProfile)
  ELSE <<-160, -12, 120>>

(* C20: both loudness passes of a job get the preset of the requested       *)
(* masterProfile if the job is a master job and (-16, -1.2, 12) if it is a  *)
(* mix or 4d job; the render plan records the requested profile; a profile  *)
(* name without a preset resolves to (-14, -1.0, 10).                      *)
C20_LoudnessTargets ==
  /\ \A j \in DOMAIN jobs :
       LET request == jobs[j].request[1]
       IN  /\ Len(af[j]) >= 2 => af[j][2][1][2] = ExpectedTarget(request)
           /\ Len(af[j]) >= 3 => SubSeq(af[j][3][1][2], 1, 3) = ExpectedTarget(request)
           /\ jobs[j].renderPlan # None
                => jobs[j].renderPlan[1].actions.masterProfile = request.masterProfile
  /\ \A p \in {"streaming", "bogus", ""} :
       LET t == getMasterTarget(p) IN <<t.I, t.TP, t.LRA>> = <<-140, -10, 100>>

C20_Witness ==
  \E j \in DOMAIN jobs :
    /\ jobs[j].request[1].enhancementType = "4d"
    /\ jobs[j].request[1].masterProfile = "loud"
    /\ statusOf(jobs, j) = Some("done")
    /\ Len(af[j]) = 3
    /\ af[j][2][1][2] = <<-160, -12, 120>>

(* C21: the second-pass operation carries the target and all five values of *)
(* the report, so two reports give the same operation exactly when they     *)
(* are equal.                                                              *)
C21_SecondPassEmbedsReport ==
  ret # None
    => /\ ret[1].a[2] = <<arg[1].target.I, arg[1].target.TP, arg[1].target.LRA,
                           arg[1].a.input_i, arg[1].a.input_tp, arg[1].a.input_lra,
                           arg[1].a.input_thresh, arg[1].a.target_offset>>
       /\ (ret[1].a = ret[1].b) <=> (arg[1].a = arg[1].b)

C21_Witness ==
  /\ ret # None
  /\ arg[1].a.target_offset # arg[1].b.target_offset
  /\ \A k \in {"input_i", "input_tp", "input_lra", "input_thresh"} : arg[1].a[k] = arg[1].b[k]
  /\ ret[1].a # ret[1].b

(* C22: a measure pass whose output has no parseable JSON block, or whose   *)
(* block lacks a measured field, fails the job: no apply pass runs with a   *)
(* missing measured value and no such job is done.                         *)
C22_MalformedReportFails ==
  \A j \in DOMAIN jobs :
    /\ Len(af[j]) >= 3 => Undefined \notin Range(af[j][3][1][2])
    /\ statusOf(jobs, j) = Some("done")
         => locals[j].measured # None /\ DOMAIN locals[j].measured[1] = Range(ReportKeys)

(* C23: a fetch that succeeds with an empty body fails the job before the   *)
(* decode stage invokes the engine.                                        *)
C23_EmptyBodyFailsBeforeDecode ==
  \A j \in JobIds :
    (fetched[j] = "ok" /\ files[j].raw = "empty")
      => /\ history[j] = <<"fetch">>
         /\ pc[j] \in {"threw", "failed"}

(* C24: a feedback post with a job handle and a rating of satisfied or      *)
(* not_satisfied is always accepted, for known and unknown jobs alike, and  *)
(* records exactly one feedback event that carries the job's request,       *)
(* analysis and render plan as they are then (null when absent); no job     *)
(* record changes.                                                         *)
C24_FeedbackAlwaysRecorded ==
  /\ [](cur = Idle /\ nFeedback < MaxFeedback
          => \A h \in Handles \ {EmptyHandle}, rating \in {"satisfied", "not_satisfied"} :
               ENABLED <<Feedback(h, rating)>>_vars)
  /\ [][nFeedback' # nFeedback
          => /\ jobs' = jobs
             /\ Len(recorded') = Len(recorded) + 1
             /\ SubSeq(recorded', 1, Len(recorded)) = recorded
             /\ LET e == last(recorded')
                IN  /\ e.eventType = "feedback"
                    /\ e.jobId \in Handles \ {EmptyHandle}
                    /\ e.feedback # None
                    /\ e.request = jobField(jobs, e.jobId, "request")
                    /\ e.analysis = jobField(jobs, e.jobId, "analysis")
                    /\ e.renderPlan = jobField(jobs, e.jobId, "renderPlan")
                    /\ last(classificationEvents') = e]_vars

C24_Witness ==
  /\ nFeedback = 1
  /\ jobs # <<>>
  /\ \E i \in 1..Len(recorded) :
       /\ recorded[i].eventType = "feedback"
       /\ recorded[i].jobId = UnknownId
       /\ recorded[i].request = None
       /\ recorded[i].feedback[1].rating = "satisfied"

(* C25: a download request is answered with the audio file only for a job   *)
(* whose status is done; for a queued, processing, failed or unknown job it *)
(* answers not-found.                                                      *)
C25_DownloadOnlyWhenDone ==
  cur = Idle
    => \A h \in Handles \ {EmptyHandle} :
         DownloadResponse(h) = 200 => statusOf(jobs, h) = Some("done")

(* everything one job owns: its record, its position, its pending error,    *)
(* its locals, its files and the engine runs made for it                    *)
JobSlice(k) ==
  <<jobsGet(jobs, k), pc[k], pending[k], locals[k], fetched[k], files[k], history[k],
    responded[k], af[k]>>

AllStages == <<"fetch", "decode", "analyze", "prerender", "measure", "apply", "check">>

(* C26: a step of one job, its failure included, leaves the record and all  *)
(* other state of every other job unchanged; each job ends in the terminal  *)
(* state its own stages determine (done after all of its stages, failed     *)
(* with the error of its own last stage).                                   *)
C26_JobsIsolated ==
  /\ [][\A j \in JobIds :
          JobSlice(j)' # JobSlice(j)
            => \A k \in JobIds \ {j} : JobSlice(k)' = JobSlice(k)]_vars
  /\ [](\A k \in JobIds :
          /\ pc[k] = "done" => statusOf(jobs, k) = Some("done") /\ history[k] = AllStages
          /\ pc[k] = "failed"
               => /\ statusOf(jobs, k) = Some("failed")
                  /\ history[k] # AllStages \/ ~outputAccepted(files[k].out)
                  /\ jobs[k].error # None
                  /\ jobs[k].error[1] \in StageErrors(lastStage(k)))

C26_Witness ==
  \E j \in JobIds, k \in JobIds :
    /\ j # k
    /\ pc[j] = "failed"
    /\ jobs[j].error = Some("engine: decode")
    /\ pc[k] = "done"
    /\ jobs[k].error = None

(* C27: a job record has an error exactly when its status is failed and an  *)
(* enhancedFileUrl exactly when its status is done; a poll for a handle     *)
(* with no record answers not-found and no record exists for it.           *)
C27_ErrorAndUrlMatchStatus ==
  /\ \A j \in DOMAIN jobs :
       /\ jobs[j].error # None <=> jobs[j].status = Some("failed")
       /\ jobs[j].enhancedFileUrl # None <=> jobs[j].status = Some("done")
  /\ \A h \in Handles \ {EmptyHandle} :
       /\ PollResponse(h) = 404 <=> h \notin DOMAIN jobs
       /\ PollResponse(h) = 200 <=> h \in DOMAIN jobs
  /\ PollResponse(UnknownId) = 404

C27_Witness ==
  \E j \in DOMAIN jobs, k \in DOMAIN jobs :
    /\ jobs[j].status = Some("done")
    /\ jobs[j].enhancedFileUrl = Some(<<"/download/", j>>)
    /\ jobs[k].status = Some("failed")
    /\ jobs[k].error = Some("Output missing after render")
    /\ jobs[k].enhancedFileUrl = None
    /\ cur = Idle
    /\ PollResponse(UnknownId) = 404

(* C28: the stages a job has started are always a prefix of fetch, decode,  *)
(* analyze, pre-render, measure, apply, check, with the render plan written *)
(* after analyze and before pre-render; a stage starts only as the next one *)
(* in that order while no failure of the job is pending, and once a stage   *)
(* has failed the job starts no further stage.                              *)
C28_StagesInOrder ==
  /\ [](\A j \in JobIds :
          /\ Len(history[j]) <= Len(AllStages)
          /\ history[j] = SubSeq(AllStages, 1, Len(history[j]))
          /\ "prerender" \in Range(history[j]) => jobField(jobs, j, "renderPlan") # None
          /\ jobField(jobs, j, "renderPlan") # None
               => /\ "analyze" \in Range(history[j])
                  /\ jobField(jobs, j, "analysis") # None)
  /\ [][\A j \in JobIds :
          /\ history'[j] # history[j]
               => /\ Len(history[j]) < Len(AllStages)
                  /\ history'[j] = Append(history[j], AllStages[Len(history[j]) + 1])
                  /\ pc[j] \notin {"threw", "failed", "done"}
                  /\ pending[j] = None
          /\ pc[j] \in {"threw", "failed"}
               => history'[j] = history[j] /\ pc'[j] \in {"threw", "failed"}]_vars

C28_Witness ==
  \E j \in JobIds, k \in JobIds :
    /\ pc[j] = "failed"
    /\ history[j] = SubSeq(AllStages, 1, 5)
    /\ jobs[j].error = Some("Loudnorm measurement failed (JSON missing)")
    /\ pc[k] = "done"
    /\ history[k] = AllStages

(* C29: in each mode the apply pass is the engine run right after the       *)
(* measure pass of the same job, it is made only with the report parsed     *)
(* from that measure pass, and a job whose measure output has no parsable   *)
(* report fails with no apply pass.                                         *)
C29_MeasureBeforeApply ==
  \A j \in JobIds :
    /\ "apply" \in Range(history[j])
         => /\ history[j][5] = "measure" /\ history[j][6] = "apply"
            /\ locals[j].measured # None
            /\ locals[j].measured
                 = parseLoudnormJson(LoudnormOutput(optsOf(j).inputFileUrl, "ok"))
            /\ Len(af[j]) = 3
            /\ af[j][2] = <<loudnormMeasureFilter(targetOf(optsOf(j)))>>
            /\ af[j][3] = finalChain(targetOf(optsOf(j)), locals[j].measured[1])
    /\ ("measure" \in Range(history[j]) /\ locals[j].measured = None)
         => /\ pc[j] \in {"threw", "failed"}
            /\ "apply" \notin Range(history[j])
            /\ Len(af[j]) = 2
    /\ (pending[j] = Some("Loudnorm measurement failed (JSON missing)")
          \/ jobField(jobs, j, "error") = Some("Loudnorm measurement failed (JSON missing)"))
         => locals[j].measured = None /\ lastStage(j) = "measure"

C29_Witness ==
  /\ \E j \in DOMAIN jobs :
       /\ jobs[j].request[1].enhancementType = "mix"
       /\ history[j] = SubSeq(AllStages, 1, 6)
       /\ locals[j].measured = Some(ReportAt("u1"))
  /\ cur # Idle

(* the tags in evaluation order *)
ToneOrder == <<"low_end_weak", "low_end_heavy", "harsh_highs", "dull_highs", "mid_forward">>

(* the correction block of one tag *)
ToneBlock(t) == buildAdaptiveTone(<<t>>)

(* C30: whatever the order and multiplicity of the input tags, the adaptive *)
(* tone corrections are the blocks of the tags present, each block once, in *)
(* the order low_end_weak, low_end_heavy, harsh_highs, dull_highs,          *)
(* mid_forward; too_loud, too_quiet and the empty tag list add nothing.     *)
C30_ToneBlocksInOrder ==
  ret # None
    => LET tags == arg[1]
           out == ret[1]
           blockOf(i) == IF ToneOrder[i] \in Range(tags) THEN ToneBlock(ToneOrder[i]) ELSE <<>>
       IN  /\ out = blockOf(1) \o blockOf(2) \o blockOf(3) \o blockOf(4) \o blockOf(5)
           /\ \A i \in 1..Len(out), k \in 1..Len(out) : i # k => out[i] # out[k]
           /\ \A i \in 1..5 : ToneBlock(ToneOrder[i]) # <<>>
           /\ ToneBlock("too_loud") = <<>> /\ ToneBlock("too_quiet") = <<>>
           /\ Range(tags) \subseteq {"too_loud", "too_quiet"} => out = <<>>
           /\ out = buildAdaptiveTone(SelectSeq(tags, LAMBDA t : t \notin {"too_loud", "too_quiet"}))

C30_Witness ==
  /\ arg = Some(<<"mid_forward", "low_end_weak", "mid_forward">>)
  /\ ret = Some(<<F("bass=g=3.5:f=100:w=0.7"), F("equalizer=f=320:t=q:w=1:g=-2.0")>>)

(* What the engine does with one operation of the block. Playback speed is *)
(* scaled by tenths/10 times 2^(twelfths/12): atempo=x scales it by x,     *)
(* asetrate=48000*r replays the 48000 Hz stream r times faster, and the    *)
(* resample and format operations leave it alone.                          *)
tempoTenths(op) == IF op[1] = "atempo=" THEN op[2][1] ELSE 10

tempoTwelfths(op) ==
  CASE op[1] = "asetrate=48000*2^(s/12)" -> op[2][1]
    [] op[1] = "atempo=1/2^(s/12)" -> -op[2][1]
    [] OTHER -> 0

(* Math.pow(2, s / 12) and 1 / ratio are exact in binary floating point     *)
(* only when the ratio is a power of two, that is when 12 divides s         *)
tempoRounded(op) ==
  /\ op[1] \in {"asetrate=48000*2^(s/12)", "atempo=1/2^(s/12)"}
  /\ op[2][1] % 12 # 0

NetTenths(block) ==
  LET upTo[i \in 0..Len(block)] ==
        IF i = 0 THEN 10 ELSE (upTo[i - 1] * tempoTenths(block[i])) \div 10
  IN  upTo[Len(block)]

NetTwelfths(block) ==
  LET upTo[i \in 0..Len(block)] ==
        IF i = 0 THEN 0 ELSE upTo[i - 1] + tempoTwelfths(block[i])
  IN  upTo[Len(block)]

(* C31: the tempo/pitch block starts with the two stabilization operations  *)
(* and atempo=speedMultiplier; for a non-zero pitch it goes on with         *)
(* asetrate at 48000 x ratio, the resample back to 48000 and atempo=1/ratio *)
(* in that order; the net speed scaling of the block is speedMultiplier,    *)
(* and for 12 semitones no operation of the block carries a rounded value.  *)
C31_TempoPitchBlock ==
  ret # None
    => LET sp == arg[1].speedMultiplier
           pt == arg[1].pitchSemitones
           b == ret[1]
       IN  /\ Len(b) >= 3
           /\ SubSeq(b, 1, 3) = <<F("aresample=48000:resampler=soxr"),
                                  F("aformat=sample_fmts=fltp:channel_layouts=stereo"),
                                  <<"atempo=", <<sp>>>> >>
           /\ pt = 0 => Len(b) = 3
           /\ pt # 0
                => /\ Len(b) = 6
                   /\ b[4] = <<"asetrate=48000*2^(s/12)", <<pt>>>>
                   /\ b[5] = F("aresample=48000:resampler=soxr")
                   /\ b[6] = <<"atempo=1/2^(s/12)", <<pt>>>>
           /\ NetTenths(b) = sp
           /\ NetTwelfths(b) = 0
           /\ pt = 12 => \A i \in 1..Len(b) : ~tempoRounded(b[i])

C31_Witness ==
  /\ arg = Some([speedMultiplier |-> 15, pitchSemitones |-> 12])
  /\ ret # None
  /\ Len(ret[1]) = 6
  /\ NetTenths(ret[1]) = 15
  /\ tempoTwelfths(ret[1][4]) = 12

(* the outcome events of job j that GET /classification/recent can show *)
OutcomesSeen(type, j) ==
  {i \in 1..Len(classificationEvents) :
     classificationEvents[i].eventType = type /\ classificationEvents[i].jobId = j}

(* C32: whenever another request handler can run, a job with a             *)
(* render_completed event has status done and a job with status failed has *)
(* its render_failed event recorded; a job that is queued or processing    *)
(* has no outcome event.                                                   *)
C32_StatusAndEventAgree ==
  cur = Idle
    => \A j \in DOMAIN jobs :
         /\ countEvents(recorded, "render_completed", j) > 0 <=> jobs[j].status = Some("done")
         /\ countEvents(recorded, "render_failed", j) > 0 <=> jobs[j].status = Some("failed")
         /\ OutcomesSeen("render_completed", j) # {} => jobs[j].status = Some("done")
         /\ (jobs[j].status = Some("failed") /\ Len(recorded) <= EventCap)
              => OutcomesSeen("render_failed", j) # {}
         /\ jobs[j].status \in {Some("queued"), Some("processing")}
              => OutcomesSeen("render_completed", j) \cup OutcomesSeen("render_failed", j) = {}

C32_Witness ==
  /\ cur = Idle
  /\ \E j \in DOMAIN jobs, k \in DOMAIN jobs :
       /\ jobs[j].status = Some("done")
       /\ OutcomesSeen("render_completed", j) # {}
       /\ jobs[k].status = Some("processing")
       /\ countEvents(recorded, "render_completed", k) + countEvents(recorded, "render_failed", k) = 0

(* the positions of processJob after its download has completed, up to the *)
(* terminal status update                                                  *)
AfterFetch == {"decode", "analyze", "plan", "prerender", "measure", "final", "check",
               "logged", "threw"}

(* C33: a job past its download holds the thread until its terminal status *)
(* update: no submission, feedback or step of another job can run, every   *)
(* other job is in its fetch phase or terminal, and whenever a request     *)
(* handler can run, a job that is not terminal is processing with the      *)
(* download step label.                                                    *)
C33_YieldsOnlyWhileFetching ==
  /\ \A j \in JobIds :
       pc[j] \in AfterFetch
         => /\ cur = j
            /\ \A k \in JobIds \ {j} : pc[k] \in {"none", "awaitFetch", "awaitBody", "done", "failed"}
            /\ ~ENABLED <<\/ \E body \in Bodies : Submit(body)
                          \/ \E k \in JobIds \ {j} : Pipeline(k)
                          \/ \E h \in Handles, rating \in Ratings : Feedback(h, rating)>>_vars
  /\ cur = Idle
       => \A j \in DOMAIN jobs :
            jobs[j].status \notin {Some("done"), Some("failed")}
              => /\ jobs[j].status = Some("processing")
                 /\ jobs[j].step = Some("Downloading audio...")
                 /\ pc[j] \in {"awaitFetch", "awaitBody"}

C33_Witness ==
  \E j \in JobIds, k \in JobIds :
    /\ pc[j] = "measure"
    /\ cur = j
    /\ pc[k] = "awaitBody"
    /\ jobs[k].step = Some("Downloading audio...")
    /\ jobs[j].step # Some("Downloading audio...")
====
